---- MODULE Spec2Model ----
(***************************************************************************)
(* Grid path-finding engine of ai-pathfinding: bfs, dfs and aStar over a   *)
(* 2D occupancy grid with an optional terrain-cost overlay.                *)
(*                                                                         *)
(* One behaviour fixes the inputs (grid, terrain, start, goal,              *)
(* optimalPathLength) and then calls bfs, dfs and aStar with each of the   *)
(* three heuristics, one after the other on these same inputs, one loop    *)
(* iteration per step.                                                     *)
(***************************************************************************)
EXTENDS Integers, Sequences, FiniteSets, TLC

(***************************************************************************)
(* Bounds of the model.                                                    *)
(***************************************************************************)
Rows == 3
Cols == 3
MaxObstacles == 2
MaxTerrainDefs == 2
MaxCornerOffset == 0
MaxSizeOffset == 1
MaxFairTerrainDefs == 1
MaxEnqueues == 4
MaxListLength == 2

(***************************************************************************)
(* Positions, grids and terrain.                                           *)
(***************************************************************************)
Pos == (0 .. Rows - 1) \X (0 .. Cols - 1)

\* Template-string key `${row},${col}` of a position: injective on integers.
Key(row, col) == <<row, col>>

NoTerrain == <<>>
NoResult == [none |-> TRUE]

\* The outcome of a call that ended in an uncaught TypeError: nothing is
\* returned.
Threw == [threw |-> TRUE]

\* TERRAIN_TYPES: the cost of each named terrain type.
Infinity == 1000000
TERRAIN_TYPES ==
  [road |-> [name |-> "road", cost |-> 1],
   grass |-> [name |-> "grass", cost |-> 2],
   mud |-> [name |-> "mud", cost |-> 3],
   water |-> [name |-> "water", cost |-> 5],
   obstacle |-> [name |-> "obstacle", cost |-> Infinity]]

\* The occupancy grid initializeGrid builds from an obstacle list.
newGrid(obstacles) ==
  [p \in Pos |-> IF p \in obstacles THEN "obstacle" ELSE "empty"]

\* buildTerrainGrid: road everywhere, then obstacles, then the terrain
\* definitions, which never overwrite an obstacle.  defs maps a set of
\* positions to type names.
buildTerrainGrid(obstacles, defs) ==
  [p \in Pos |->
     IF p \in obstacles
       THEN [type |-> "obstacle", cost |-> TERRAIN_TYPES["obstacle"].cost]
       ELSE IF p \in DOMAIN defs
              THEN [type |-> defs[p], cost |-> TERRAIN_TYPES[defs[p]].cost]
              ELSE [type |-> "road", cost |-> 1]]

\* A cost lookup that ignores the terrain.
getTerrainCostUniform(terrain, row, col) == 1

\* getTerrainCost: 1 without terrain, else the stored cost of the cell.
getTerrainCost(terrain, row, col) ==
  IF terrain = NoTerrain THEN 1 ELSE terrain[<<row, col>>].cost

\* terrain[row][col].cost can be read: without such a cell, terrain[row] or
\* terrain[row][col] is undefined and the property read is a TypeError.
terrainCellDefined(terrain, row, col) ==
  terrain = NoTerrain \/ <<row, col>> \in DOMAIN terrain

\* The count with the comparison inverted: obstacles are counted.
countObstacles(grid) == Cardinality({p \in Pos : grid[p] = "obstacle"})

\* totalFreeSpaces: the number of cells that are not obstacles.
countFreeSpaces(grid) == Cardinality({p \in Pos : grid[p] # "obstacle"})

\* A movement table whose second entry is a diagonal step.
directionsDiagonal == << <<-1, 0>>, <<1, 1>>, <<1, 0>>, <<0, -1>> >>

\* A movement table without the step to the left.
directionsNoLeft == << <<-1, 0>>, <<0, 1>>, <<1, 0>> >>

\* Movement order: up, right, down, left.
directions == << <<-1, 0>>, <<0, 1>>, <<1, 0>>, <<0, -1>> >>

\* The acceptance test with the column bound off by one.
validPositionShortCols(grid, visited, newRow, newCol) ==
  /\ newRow >= 0 /\ newRow < Rows
  /\ newCol >= 0 /\ newCol < Cols - 1
  /\ grid[<<newRow, newCol>>] # "obstacle"
  /\ Key(newRow, newCol) \notin visited

\* The acceptance test shared by the three searches: in bounds, not an
\* obstacle, not in the visited set.
validPosition(grid, visited, newRow, newCol) ==
  /\ newRow >= 0 /\ newRow < Rows
  /\ newCol >= 0 /\ newCol < Cols
  /\ grid[<<newRow, newCol>>] # "obstacle"
  /\ Key(newRow, newCol) \notin visited

\* A Set.add that leaves the set as it was.
addNothing(set, key) == set

\* visited.add(key)
add(set, key) == set \cup {key}

\* The quotient with its operands exchanged.
RatioSwapped(a, b) == [num |-> b, den |-> a]

\* A quotient a / b of the metrics, kept exact as numerator and denominator.
Ratio(a, b) == [num |-> a, den |-> b]

VARIABLES
  grid, terrain, start, goal, preset, heuristicName, optimalPathLength,
  algorithm, pc,
  frontier, visited, visitedNodes, nodesExpanded, totalSuccessors,
  gScore, totalHeuristic, totalFValue,
  results,
  queueItems, enqueued, returned,
  gridPresets, gridSize, terrainMode, selectedAlgorithm, selectedHeuristic,
  visitedCells, pathCells, currentCell, isRunning, shownResults,
  appPc, algorithmResults, index

args == <<grid, terrain, start, goal, preset, optimalPathLength>>
inputs == <<args, heuristicName>>
locals == <<frontier, visited, visitedNodes, nodesExpanded, totalSuccessors,
            gScore, totalHeuristic, totalFValue>>
search == <<inputs, algorithm, pc, locals, results>>

\* A PriorityQueue used on its own: its items, the number of enqueue calls
\* made, and the outcome of the last dequeue call.
priorityQueue == <<queueItems, enqueued, returned>>

\* The App component: the preset data, its React state (the state results is
\* shownResults, algorithm and heuristic are the selected ones), and of the
\* asynchronous handleStart its position, its local algorithmResults and
\* the loop index of visualizeAlgorithm.
controls == <<gridSize, terrainMode, selectedAlgorithm, selectedHeuristic>>
display == <<visitedCells, pathCells, currentCell, shownResults>>
application == <<gridPresets, controls, display, isRunning,
                 appPc, algorithmResults, index>>

vars == <<search, priorityQueue, application>>

(***************************************************************************)
(* bfs and dfs.                                                            *)
(***************************************************************************)
\* The search node pushed for an accepted neighbour of current.
successorNode(current, newRow, newCol) ==
  [row |-> newRow, col |-> newCol,
   path |-> Append(current.path, <<newRow, newCol>>),
   cost |-> current.cost + getTerrainCost(terrain, newRow, newCol)]

\* bfs: the neighbour loop, directions in the order up, right, down, left.
\* acc carries queue, visited and successorsGenerated; threw is set when
\* getTerrainCost ends the call with a TypeError.
RECURSIVE bfsExplore(_, _, _)
bfsExplore(current, i, acc) ==
  IF i > Len(directions) THEN acc
  ELSE LET newRow == current.row + directions[i][1]
           newCol == current.col + directions[i][2]
       IN IF validPosition(grid, acc.visited, newRow, newCol)
            THEN IF terrainCellDefined(terrain, newRow, newCol)
                   THEN bfsExplore(current, i + 1,
                          [queue |-> Append(acc.queue,
                                       successorNode(current, newRow, newCol)),
                           visited |-> add(acc.visited, Key(newRow, newCol)),
                           successorsGenerated |-> acc.successorsGenerated + 1,
                           threw |-> FALSE])
                   ELSE [queue |-> acc.queue,
                         visited |-> add(acc.visited, Key(newRow, newCol)),
                         successorsGenerated |-> acc.successorsGenerated + 1,
                         threw |-> TRUE]
            ELSE bfsExplore(current, i + 1, acc)

\* The neighbour loop of dfs run in forward order.
dfsExploreForward(current, i, acc) ==
  bfsExplore(current, Len(directions) + 1 - i, acc)

\* dfs: the neighbour loop, directions in reverse order, pushed on the stack.
RECURSIVE dfsExplore(_, _, _)
dfsExplore(current, i, acc) ==
  IF i < 1 THEN acc
  ELSE LET newRow == current.row + directions[i][1]
           newCol == current.col + directions[i][2]
       IN IF validPosition(grid, acc.visited, newRow, newCol)
            THEN IF terrainCellDefined(terrain, newRow, newCol)
                   THEN dfsExplore(current, i - 1,
                          [queue |-> Append(acc.queue,
                                       successorNode(current, newRow, newCol)),
                           visited |-> add(acc.visited, Key(newRow, newCol)),
                           successorsGenerated |-> acc.successorsGenerated + 1,
                           threw |-> FALSE])
                   ELSE [queue |-> acc.queue,
                         visited |-> add(acc.visited, Key(newRow, newCol)),
                         successorsGenerated |-> acc.successorsGenerated + 1,
                         threw |-> TRUE]
            ELSE dfsExplore(current, i - 1, acc)

\* shift taking the last element instead of the first.
shiftLast(queue) == [node |-> queue[Len(queue)],
                     rest |-> SubSeq(queue, 1, Len(queue) - 1)]

\* A pop that reads the top of the stack and leaves it there.
popPeek(stack) == [node |-> stack[Len(stack)], rest |-> stack]

\* A shift that takes the node of least accumulated cost, the oldest among
\* equals: the queue behaves as a uniform-cost frontier.
shiftCheapest(queue) ==
  LET k == CHOOSE i \in 1 .. Len(queue) :
             \A j \in 1 .. Len(queue) :
               \/ queue[i].cost < queue[j].cost
               \/ queue[i].cost = queue[j].cost /\ i <= j
  IN [node |-> queue[k],
      rest |-> SubSeq(queue, 1, k - 1) \o SubSeq(queue, k + 1, Len(queue))]

\* A pop that takes the oldest node: the stack behaves as a queue.
popFirst(stack) == [node |-> Head(stack), rest |-> Tail(stack)]

\* queue.shift() and stack.pop(): the node removed and what remains.
shift(queue) == [node |-> Head(queue), rest |-> Tail(queue)]
pop(stack) == [node |-> stack[Len(stack)],
               rest |-> SubSeq(stack, 1, Len(stack) - 1)]

\* performance.now() differences are not modelled: one abstract duration.
Elapsed == "elapsed"

\* The success record of bfs and of dfs (no totalSuccessors field).
successResult(current, expanded, successors, trace) ==
  LET pathLength == Len(current.path)
      totalFreeSpaces == countFreeSpaces(grid)
  IN [success |-> TRUE,
      path |-> current.path,
      visitedNodes |-> trace,
      nodesExpanded |-> expanded,
      executionTime |-> Elapsed,
      pathLength |-> pathLength,
      pathCost |-> current.cost,
      branchingFactor |-> Ratio(successors, expanded),
      pathOptimalityRatio |-> Ratio(optimalPathLength, pathLength),
      searchEfficiencyRate |-> Ratio(pathLength * 100, expanded),
      penetrance |-> Ratio(pathLength, expanded),
      completionPercentage |-> Ratio(expanded * 100, totalFreeSpaces),
      nodesPerSecond |-> [nodes |-> expanded, per |-> Elapsed],
      totalFreeSpaces |-> totalFreeSpaces,
      optimalPathLength |-> optimalPathLength,
      isWeighted |-> terrain # NoTerrain]

\* The failure record of bfs and of dfs.
failureResult(expanded, successors, trace) ==
  LET totalFreeSpaces == countFreeSpaces(grid)
  IN [success |-> FALSE,
      path |-> <<>>,
      visitedNodes |-> trace,
      nodesExpanded |-> expanded,
      executionTime |-> Elapsed,
      pathLength |-> 0,
      branchingFactor |-> IF expanded > 0 THEN Ratio(successors, expanded)
                                          ELSE Ratio(0, 1),
      completionPercentage |-> Ratio(expanded * 100, totalFreeSpaces),
      nodesPerSecond |-> [nodes |-> expanded, per |-> Elapsed],
      totalFreeSpaces |-> totalFreeSpaces,
      isWeighted |-> terrain # NoTerrain]

(***************************************************************************)
(* Heuristics.  A value n + sqrt(r) is kept exact as [n, r]; a perfect     *)
(* square r is folded into n, as Math.sqrt returns it exactly.  On the     *)
(* small integers of a grid the floating-point order of two such values is *)
(* their real order.                                                       *)
(***************************************************************************)
abs(x) == IF x < 0 THEN -x ELSE x
max(a, b) == IF a >= b THEN a ELSE b

\* Math.sqrt of a natural number.
sqrt(x) ==
  IF \E k \in 0 .. x : k * k = x
    THEN [n |-> CHOOSE k \in 0 .. x : k * k = x, r |-> 0]
    ELSE [n |-> 0, r |-> x]

manhattanDistance(a, b) ==
  [n |-> abs(a[1] - b[1]) + abs(a[2] - b[2]), r |-> 0]

\* The Euclidean distance without the square root.
euclideanSquared(a, b) ==
  [n |-> (a[1] - b[1]) * (a[1] - b[1]) + (a[2] - b[2]) * (a[2] - b[2]), r |-> 0]

euclideanDistance(a, b) ==
  sqrt((a[1] - b[1]) * (a[1] - b[1]) + (a[2] - b[2]) * (a[2] - b[2]))

chebyshevDistance(a, b) ==
  [n |-> max(abs(a[1] - b[1]), abs(a[2] - b[2])), r |-> 0]

HeuristicNames == {"manhattan", "euclidean", "chebyshev"}

\* Property names HEURISTICS inherits from Object.prototype: the lookup
\* finds a value that has no func.
InheritedNames == {"toString", "constructor"}

TypeError == "TypeError"

\* A lookup that falls back to manhattan for every other name.
heuristicFuncOrManhattan(name) ==
  IF name \in HeuristicNames THEN name ELSE "manhattan"

\* HEURISTICS[heuristicName].func: the function of a defined heuristic,
\* undefined for an inherited name, a TypeError for any other name
\* (HEURISTICS[heuristicName] is undefined).
heuristicFunc(name) ==
  IF name \in HeuristicNames THEN name
  ELSE IF name \in InheritedNames THEN "undefined"
  ELSE TypeError

\* func(a, b) for a func of HEURISTICS.
heuristic(name, a, b) ==
  CASE name = "manhattan" -> manhattanDistance(a, b)
    [] name = "euclidean" -> euclideanDistance(a, b)
    [] name = "chebyshev" -> chebyshevDistance(a, b)

\* The priority of a greedy search: h alone.
addGHeuristicOnly(g, h) == h

\* g + h for an integer g.
addG(g, h) == [n |-> g + h.n, r |-> h.r]

\* sqrt(a) < k + sqrt(b), decided in integers.
sqrtLess(a, k, b) ==
  IF k >= 0
    THEN LET m == a - k * k - b
         IN m < 0 \/ m * m < 4 * k * k * b
    ELSE LET m == b - k * k - a
         IN m > 0 /\ m * m > 4 * k * k * a

\* The comparison with <= in the place of <.
priorityNotGreater(p, q) == ~sqrtLess(q.r, p.n - q.n, p.r)

\* p < q for p = n + sqrt(r): the sign of a.priority - b.priority.
priorityLess(p, q) == sqrtLess(p.r, q.n - p.n, q.r)

(***************************************************************************)
(* PriorityQueue.                                                          *)
(***************************************************************************)
\* A stable ascending sort by priority: Array.prototype.sort with the
\* comparator (a, b) => a.priority - b.priority keeps equal entries in
\* their order.
RECURSIVE sortByPriority(_)
sortByPriority(items) ==
  IF items = <<>> THEN <<>>
  ELSE LET n == Len(items)
           e == items[n]
           sorted == sortByPriority(SubSeq(items, 1, n - 1))
           after == {i \in 1 .. n - 1 : priorityLess(e.priority, sorted[i].priority)}
           k == IF after = {} THEN n
                ELSE CHOOSE i \in after : \A j \in after : i <= j
       IN SubSeq(sorted, 1, k - 1) \o <<e>> \o SubSeq(sorted, k, n - 1)

\* enqueue without the sort: the open set degrades to a FIFO queue.
enqueueUnsorted(items, item, priority) ==
  Append(items, [item |-> item, priority |-> priority])

\* enqueue: push, then sort.
enqueue(items, item, priority) ==
  sortByPriority(Append(items, [item |-> item, priority |-> priority]))

\* dequeue: items.shift().item, and the remaining items.
dequeue(items) == [item |-> Head(items).item, rest |-> Tail(items)]

(***************************************************************************)
(* aStar.                                                                  *)
(***************************************************************************)
\* A closed-set test that never finds the key.
isClosedNever(closed, key) == FALSE

\* visited.has(currentKey): the dequeued entry is stale.
isClosed(closed, key) == key \in closed

\* The test with <= in the place of <: an equal score is pushed again.
improvesOrEqual(scores, key, newG) ==
  \/ key \notin DOMAIN scores
  \/ scores[key] = 0
  \/ newG <= scores[key]

\* !gScore[key] || newG < gScore[key]: no score recorded, a recorded 0, or
\* a strictly better score.
improves(scores, key, newG) ==
  \/ key \notin DOMAIN scores
  \/ scores[key] = 0
  \/ newG < scores[key]

\* gScore[key] = newG
setScore(scores, key, newG) ==
  [k \in DOMAIN scores \cup {key} |-> IF k = key THEN newG ELSE scores[k]]

\* aStar: the neighbour loop.  acc carries openSet, gScore and
\* successorsGenerated; closed is the visited set; threw is set when
\* getTerrainCost ends the call with a TypeError.
RECURSIVE aStarExplore(_, _, _, _)
aStarExplore(current, closed, i, acc) ==
  IF i > Len(directions) THEN acc
  ELSE LET newRow == current.row + directions[i][1]
           newCol == current.col + directions[i][2]
           neighborKey == Key(newRow, newCol)
           newG == current.g + getTerrainCost(terrain, newRow, newCol)
           f == addG(newG, heuristic(heuristicFunc(heuristicName),
                                     <<newRow, newCol>>, goal))
       IN IF validPosition(grid, closed, newRow, newCol)
            THEN IF ~terrainCellDefined(terrain, newRow, newCol)
                   THEN [acc EXCEPT !.threw = TRUE]
                 ELSE IF improves(acc.gScore, neighborKey, newG)
                   THEN aStarExplore(current, closed, i + 1,
                          [openSet |-> enqueue(acc.openSet,
                                         [row |-> newRow, col |-> newCol,
                                          path |-> Append(current.path,
                                                          <<newRow, newCol>>),
                                          g |-> newG], f),
                           gScore |-> setScore(acc.gScore, neighborKey, newG),
                           successorsGenerated |-> acc.successorsGenerated + 1,
                           threw |-> FALSE])
                   ELSE aStarExplore(current, closed, i + 1, acc)
            ELSE aStarExplore(current, closed, i + 1, acc)

\* A running sum of values n + sqrt(r): the integer part and the radicands.
addTotal(total, v) ==
  [n |-> total.n + v.n,
   roots |-> IF v.r = 0 THEN total.roots ELSE Append(total.roots, v.r)]

\* The success record of aStar.
aStarSuccess(current, expanded, successors, trace, sumH, sumF) ==
  LET pathLength == Len(current.path)
      totalFreeSpaces == countFreeSpaces(grid)
  IN [success |-> TRUE,
      path |-> current.path,
      visitedNodes |-> trace,
      nodesExpanded |-> expanded,
      totalSuccessors |-> successors,
      executionTime |-> Elapsed,
      pathLength |-> pathLength,
      pathCost |-> current.g,
      heuristic |-> heuristicName,
      branchingFactor |-> Ratio(successors, expanded),
      pathOptimalityRatio |-> Ratio(optimalPathLength, pathLength),
      searchEfficiencyRate |-> Ratio(pathLength * 100, expanded),
      penetrance |-> Ratio(pathLength, expanded),
      completionPercentage |-> Ratio(expanded * 100, totalFreeSpaces),
      nodesPerSecond |-> [nodes |-> expanded, per |-> Elapsed],
      totalFreeSpaces |-> totalFreeSpaces,
      finalPathCost |-> current.g,
      avgHeuristic |-> Ratio(sumH, expanded),
      avgFValue |-> Ratio(sumF, expanded),
      optimalPathLength |-> optimalPathLength,
      isWeighted |-> terrain # NoTerrain]

\* The failure record of aStar.
aStarFailure(expanded, successors, trace, sumH, sumF) ==
  LET totalFreeSpaces == countFreeSpaces(grid)
  IN [success |-> FALSE,
      path |-> <<>>,
      visitedNodes |-> trace,
      nodesExpanded |-> expanded,
      totalSuccessors |-> successors,
      executionTime |-> Elapsed,
      pathLength |-> 0,
      heuristic |-> heuristicName,
      branchingFactor |-> IF expanded > 0 THEN Ratio(successors, expanded)
                                          ELSE Ratio(0, 1),
      completionPercentage |-> Ratio(expanded * 100, totalFreeSpaces),
      nodesPerSecond |-> [nodes |-> expanded, per |-> Elapsed],
      totalFreeSpaces |-> totalFreeSpaces,
      avgHeuristic |-> IF expanded > 0 THEN Ratio(sumH, expanded) ELSE Ratio(0, 1),
      avgFValue |-> IF expanded > 0 THEN Ratio(sumF, expanded) ELSE Ratio(0, 1),
      isWeighted |-> terrain # NoTerrain]

(***************************************************************************)
(* Metrics component.                                                      *)
(***************************************************************************)
\* optimalityRatio: the reference over the path cost in weighted mode, over
\* the path length otherwise.
optimalityRatio(res) ==
  LET foundValue == IF res.isWeighted THEN res.pathCost ELSE res.pathLength
      optimalValue == res.optimalPathLength
  IN Ratio(optimalValue, foundValue)

\* results.totalSuccessors.toLocaleString(): the number shown as generated
\* nodes, a TypeError when the result has no such field.
generatedNodes(res) ==
  IF "totalSuccessors" \in DOMAIN res THEN res.totalSuccessors ELSE TypeError

(***************************************************************************)
(* Reference values the results are compared with: the cheapest and the    *)
(* shortest 4-directional free-cell paths, by exhaustive relaxation.       *)
(***************************************************************************)
Free(g, p) == g[p] # "obstacle"

Adjacent(p, q) == abs(p[1] - q[1]) + abs(p[2] - q[2]) = 1

\* The cost of entering cell p.
EnterCost(t, p) == IF t = NoTerrain THEN 1 ELSE t[p].cost

MinOf(S) == CHOOSE x \in S : \A y \in S : x <= y

\* D is a set of pairs <<position, least cost found so far>>.
DistOf(D, p) == (CHOOSE e \in D : e[1] = p)[2]

\* One round of relaxation over all cells.
RelaxOnce(g, t, D) ==
  {<<p, IF ~Free(g, p) THEN Infinity
        ELSE MinOf({DistOf(D, p)} \cup
                   {DistOf(D, q) + EnterCost(t, p) :
                      q \in {x \in Pos : Adjacent(x, p)
                                          /\ DistOf(D, x) < Infinity}})>> :
     p \in Pos}

RECURSIVE Relax(_, _, _)
Relax(g, t, D) ==
  LET E == RelaxOnce(g, t, D)
  IN IF E = D THEN D ELSE Relax(g, t, E)

\* MinCost(g, t, from, to): the least cost of a free-cell path from `from`
\* to `to` (the start cell's own cost is not charged), Infinity if there is
\* none.
MinCost(g, t, from, to) ==
  DistOf(Relax(g, t, {<<p, IF p = from /\ Free(g, p) THEN 0 ELSE Infinity>> :
                        p \in Pos}),
         to)

\* The least number of steps of a free-cell path.
StepDistance(g, from, to) == MinCost(g, NoTerrain, from, to)

\* The least cost of a free-cell path from `from` to every cell, as a set
\* of pairs <<position, cost>>.
MinCosts(g, t, from) ==
  Relax(g, t, {<<p, IF p = from /\ Free(g, p) THEN 0 ELSE Infinity>> : p \in Pos})

\* A preset's reference optima: optimalPathLength counts the positions of a
\* shortest path, optimalPathCost is the least terrain cost; 0 when the goal
\* cannot be reached.  costFromStart keeps the least cost to every cell.
PresetOptima(g, t, from, to) ==
  LET steps == StepDistance(g, from, to)
      costs == MinCosts(g, t, from)
  IN IF steps >= Infinity
       THEN [optimalPathLength |-> 0, optimalPathCost |-> 0,
             costFromStart |-> costs]
       ELSE [optimalPathLength |-> steps + 1,
             optimalPathCost |-> IF t = NoTerrain THEN steps
                                 ELSE DistOf(costs, to),
             costFromStart |-> costs]

(***************************************************************************)
(* mazeConfig: the grid presets and buildTerrainGrid over their lists.      *)
(***************************************************************************)
GridSizes == {"small", "medium", "large"}

\* The terrain types the presets use.
PresetTerrainTypes == {"grass", "mud", "water"}

\* GRID_PRESETS scaled to the Rows x Cols grid: obstacle and terrain lists
\* with an obstacle under a terrain definition, a position defined twice and
\* positions out of range; the goal of medium is walled in.
GRID_PRESETS ==
  [small |->
     [rows |-> Rows, cols |-> Cols,
      start |-> <<0, 0>>, goal |-> <<Rows - 1, Cols - 1>>,
      obstacles |-> << <<1, 1>> >>,
      terrain |-> << [row |-> 0, col |-> 1, type |-> "water"],
                     [row |-> 1, col |-> 1, type |-> "grass"] >>],
   medium |->
     [rows |-> Rows, cols |-> Cols,
      start |-> <<0, 0>>, goal |-> <<Rows - 1, Cols - 1>>,
      obstacles |-> << <<Rows - 2, Cols - 1>>, <<Rows - 1, Cols - 2>> >>,
      terrain |-> << [row |-> 1, col |-> 0, type |-> "mud"] >>],
   large |->
     [rows |-> Rows, cols |-> Cols,
      start |-> <<0, 0>>, goal |-> <<Rows - 1, Cols - 1>>,
      obstacles |-> << <<0, 1>>, <<Rows, 0>> >>,
      terrain |-> << [row |-> 1, col |-> 0, type |-> "mud"],
                     [row |-> 1, col |-> 0, type |-> "grass"],
                     [row |-> 0, col |-> Cols, type |-> "water"] >>]]

\* row >= 0 && row < rows && col >= 0 && col < cols
inRange(row, col, rows, cols) ==
  row >= 0 /\ row < rows /\ col >= 0 /\ col < cols

\* initializeGrid: the grid of 'empty' cells with the obstacles of the list
\* that are in range.
RECURSIVE markObstacles(_, _, _, _)
markObstacles(matrix, rows, cols, list) ==
  IF list = <<>> THEN matrix
  ELSE LET p == Head(list)
       IN markObstacles(IF inRange(p[1], p[2], rows, cols)
                          THEN [matrix EXCEPT ![p] = "obstacle"]
                          ELSE matrix,
                        rows, cols, Tail(list))

newGridOfList(rows, cols, obstacles) ==
  markObstacles([p \in (0 .. rows - 1) \X (0 .. cols - 1) |-> "empty"],
                rows, cols, obstacles)

\* buildTerrainGrid: obstacles.forEach over the road matrix.
RECURSIVE placeObstacles(_, _, _, _)
placeObstacles(matrix, rows, cols, list) ==
  IF list = <<>> THEN matrix
  ELSE LET p == Head(list)
       IN placeObstacles(
            IF inRange(p[1], p[2], rows, cols)
              THEN [matrix EXCEPT ![p] = [type |-> "obstacle",
                                          cost |-> TERRAIN_TYPES["obstacle"].cost]]
              ELSE matrix,
            rows, cols, Tail(list))

\* A definition applied without looking at the cell it replaces.
applyTerrainDefOverwriting(matrix, rows, cols, def) ==
  IF inRange(def.row, def.col, rows, cols)
    THEN [matrix EXCEPT ![<<def.row, def.col>>] =
            [type |-> def.type, cost |-> TERRAIN_TYPES[def.type].cost]]
    ELSE matrix

\* buildTerrainGrid: the callback of terrainDefs.forEach, which leaves an
\* obstacle cell as it is.
applyTerrainDef(matrix, rows, cols, def) ==
  IF inRange(def.row, def.col, rows, cols)
    THEN IF matrix[<<def.row, def.col>>].type # "obstacle"
           THEN [matrix EXCEPT ![<<def.row, def.col>>] =
                   [type |-> def.type, cost |-> TERRAIN_TYPES[def.type].cost]]
           ELSE matrix
    ELSE matrix

RECURSIVE applyTerrainDefs(_, _, _, _)
applyTerrainDefs(matrix, rows, cols, list) ==
  IF list = <<>> THEN matrix
  ELSE applyTerrainDefs(applyTerrainDef(matrix, rows, cols, Head(list)),
                        rows, cols, Tail(list))

\* buildTerrainGrid(rows, cols, obstacles, terrainDefs, start, goal) over
\* the lists of a preset.
buildTerrainGridOfLists(rows, cols, obstacles, terrainDefs) ==
  applyTerrainDefs(
    placeObstacles([p \in (0 .. rows - 1) \X (0 .. cols - 1) |->
                      [type |-> "road", cost |-> 1]],
                   rows, cols, obstacles),
    rows, cols, terrainDefs)

(***************************************************************************)
(* The App component: its state.                                           *)
(***************************************************************************)
\* null as the value of currentCell, start and goal.
NoCell == <<>>

\* No reference optima: no grid has been initialised.
NoOptima == [optimalPathLength |-> 0, optimalPathCost |-> 0, costFromStart |-> {}]

\* The useState initial values of App; the effect that initialises the grid
\* has not run.
InitApplication ==
  /\ gridSize = "small"
  /\ terrainMode = "simple"
  /\ selectedAlgorithm = "bfs"
  /\ selectedHeuristic = "manhattan"
  /\ visitedCells = <<>>
  /\ pathCells = <<>>
  /\ currentCell = NoCell
  /\ isRunning = FALSE
  /\ shownResults = NoResult
  /\ appPc = "mounting"
  /\ algorithmResults = NoResult
  /\ index = 0

\* The searches and the queue called on their own: no App is mounted.
InitNoApp == gridPresets = GRID_PRESETS /\ InitApplication

(***************************************************************************)
(* Inputs.                                                                 *)
(***************************************************************************)
ObstacleLists(n) == {S \in SUBSET Pos : Cardinality(S) <= n}

TerrainDefTypes == {"grass", "water"}

TerrainDefs ==
  UNION {[D -> TerrainDefTypes] :
           D \in {S \in SUBSET Pos : Cardinality(S) <= MaxTerrainDefs}}

\* The start and goal cells of the weighted presets: the top-left and the
\* bottom-right corner regions.
WeightedStarts == (0 .. MaxCornerOffset) \X (0 .. MaxCornerOffset)

WeightedGoals ==
  (Rows - 1 - MaxCornerOffset .. Rows - 1) \X (Cols - 1 - MaxCornerOffset .. Cols - 1)

\* The calls of one behaviour, in order; an aStar call is named by its
\* heuristic.
Runs == <<"bfs", "dfs", "manhattan", "euclidean", "chebyshev">>

RunNames == {Runs[i] : i \in 1 .. Len(Runs)}

\* Heuristic names HEURISTICS does not define, one of them inherited.
UnknownNames == {"dijkstra", "toString"}

CallNames == RunNames \cup UnknownNames

\* The number of calls of Runs that have ended.
Returned(res) == Cardinality({a \in RunNames : res[a] # NoResult})

\* The heuristic name of the next aStar call: the next of Runs, then the
\* unknown names that have not been tried.
NextNames(res) ==
  IF Returned(res) < Len(Runs) THEN {Runs[Returned(res) + 1]}
  ELSE {name \in UnknownNames : res[name] = NoResult}

\* A terrain overlay of rows x cols road cells.
terrainOfSize(rows, cols) ==
  [p \in (0 .. rows - 1) \X (0 .. cols - 1) |-> [type |-> "road", cost |-> 1]]

\* The dimensions of an overlay that does not fit the grid.
TerrainSizes ==
  {<<Rows + dr, Cols + dc>> :
     dr \in -MaxSizeOffset .. MaxSizeOffset,
     dc \in -MaxSizeOffset .. MaxSizeOffset} \ {<<Rows, Cols>>}

\* initializeGrid in simple mode: no terrain, the reference is the optimal
\* path length.
InitSimple ==
  \E obstacles \in ObstacleLists(MaxObstacles) :
    /\ grid = newGrid(obstacles)
    /\ terrain = NoTerrain
    /\ start \in Pos \ obstacles
    /\ goal \in Pos \ obstacles
    /\ preset = PresetOptima(grid, terrain, start, goal)
    /\ optimalPathLength = preset.optimalPathLength

\* initializeGrid in weighted mode: the terrain built from the preset's
\* definitions, the reference is the optimal path cost.
InitWeighted ==
  \E obstacles \in ObstacleLists(MaxObstacles), defs \in TerrainDefs :
    /\ grid = newGrid(obstacles)
    /\ terrain = buildTerrainGrid(obstacles, defs)
    /\ start \in WeightedStarts \ obstacles
    /\ goal \in WeightedGoals \ obstacles
    /\ preset = PresetOptima(grid, terrain, start, goal)
    /\ optimalPathLength = preset.optimalPathCost

\* A caller that passes a terrain overlay built for another grid size; the
\* reference is the optimal path cost, which on road cells is the number of
\* steps.
InitMismatched ==
  \E obstacles \in ObstacleLists(MaxObstacles), size \in TerrainSizes :
    /\ grid = newGrid(obstacles)
    /\ terrain = terrainOfSize(size[1], size[2])
    /\ start \in WeightedStarts \ obstacles
    /\ goal \in WeightedGoals \ obstacles
    /\ preset = PresetOptima(grid, NoTerrain, start, goal)
    /\ optimalPathLength = preset.optimalPathCost

\* No call has been made.
InitCalls ==
  /\ heuristicName = "manhattan"
  /\ algorithm = "none"
  /\ pc = "idle"
  /\ frontier = <<>>
  /\ visited = {}
  /\ visitedNodes = <<>>
  /\ nodesExpanded = 0
  /\ totalSuccessors = 0
  /\ gScore = <<>>
  /\ totalHeuristic = [n |-> 0, roots |-> <<>>]
  /\ totalFValue = [n |-> 0, roots |-> <<>>]
  /\ results = [a \in CallNames |-> NoResult]

\* new PriorityQueue()
InitQueue ==
  /\ queueItems = <<>>
  /\ enqueued = 0
  /\ returned = NoResult

Init ==
  /\ InitSimple \/ InitWeighted \/ InitMismatched
  /\ InitCalls
  /\ InitQueue
  /\ InitNoApp

(***************************************************************************)
(* bfs(grid, start, goal, optimalPathLength, terrain)                      *)
(***************************************************************************)
\* A set-up that keeps the visited set of the previous call.
CallUninformedStale(name) ==
  /\ pc = "idle"
  /\ algorithm' = name
  /\ pc' = "loop"
  /\ frontier' = <<[row |-> start[1], col |-> start[2],
                    path |-> <<start>>, cost |-> 0]>>
  /\ visited' = visited \cup {Key(start[1], start[2])}
  /\ visitedNodes' = <<>>
  /\ nodesExpanded' = 0
  /\ totalSuccessors' = 0
  /\ gScore' = <<>>
  /\ totalHeuristic' = [n |-> 0, roots |-> <<>>]
  /\ totalFValue' = [n |-> 0, roots |-> <<>>]
  /\ UNCHANGED <<inputs, results, priorityQueue, application>>

\* A set-up that does not mark start as visited.
SetUpUninformedUnmarked(name) ==
  /\ pc = "idle"
  /\ algorithm' = name
  /\ pc' = "loop"
  /\ frontier' = <<[row |-> start[1], col |-> start[2],
                    path |-> <<start>>, cost |-> 0]>>
  /\ visited' = {}
  /\ visitedNodes' = <<>>
  /\ nodesExpanded' = 0
  /\ totalSuccessors' = 0
  /\ gScore' = <<>>
  /\ totalHeuristic' = [n |-> 0, roots |-> <<>>]
  /\ totalFValue' = [n |-> 0, roots |-> <<>>]

\* The local state bfs and dfs set up before their main loop.
SetUpUninformed(name) ==
  /\ pc = "idle"
  /\ algorithm' = name
  /\ pc' = "loop"
  /\ frontier' = <<[row |-> start[1], col |-> start[2],
                    path |-> <<start>>, cost |-> 0]>>
  /\ visited' = {Key(start[1], start[2])}
  /\ visitedNodes' = <<>>
  /\ nodesExpanded' = 0
  /\ totalSuccessors' = 0
  /\ gScore' = <<>>
  /\ totalHeuristic' = [n |-> 0, roots |-> <<>>]
  /\ totalFValue' = [n |-> 0, roots |-> <<>>]

\* The state set up before the main loop of bfs and of dfs.
CallUninformed(name) ==
  /\ SetUpUninformed(name)
  /\ UNCHANGED <<inputs, results, priorityQueue, application>>

CallBfs ==
  /\ algorithm = "none"
  /\ CallUninformed("bfs")

\* One iteration of the while loop of bfs; a TypeError of getTerrainCost
\* ends the call without a result.
BfsIterate ==
  /\ algorithm = "bfs" /\ pc = "loop"
  /\ Len(frontier) > 0
  /\ LET taken == shift(frontier)
         current == taken.node
         expanded == nodesExpanded + 1
         trace == Append(visitedNodes, <<current.row, current.col>>)
     IN /\ nodesExpanded' = expanded
        /\ visitedNodes' = trace
        /\ IF current.row = goal[1] /\ current.col = goal[2]
             THEN /\ results' = [results EXCEPT !.bfs =
                                   successResult(current, expanded,
                                                 totalSuccessors, trace)]
                  /\ pc' = "idle"
                  /\ frontier' = taken.rest
                  /\ UNCHANGED <<visited, totalSuccessors>>
             ELSE LET acc == bfsExplore(current, 1,
                                [queue |-> taken.rest, visited |-> visited,
                                 successorsGenerated |-> 0, threw |-> FALSE])
                  IN /\ frontier' = acc.queue
                     /\ visited' = acc.visited
                     /\ IF acc.threw
                          THEN /\ results' = [results EXCEPT !.bfs = Threw]
                               /\ pc' = "idle"
                               /\ UNCHANGED totalSuccessors
                          ELSE /\ totalSuccessors' =
                                    totalSuccessors + acc.successorsGenerated
                               /\ UNCHANGED <<pc, results>>
  /\ UNCHANGED <<inputs, algorithm, gScore, totalHeuristic, totalFValue,
               priorityQueue, application>>

\* The queue emptied: the failure result.
BfsFail ==
  /\ algorithm = "bfs" /\ pc = "loop"
  /\ Len(frontier) = 0
  /\ results' = [results EXCEPT !.bfs =
                   failureResult(nodesExpanded, totalSuccessors, visitedNodes)]
  /\ pc' = "idle"
  /\ UNCHANGED <<inputs, algorithm, locals, priorityQueue, application>>

(***************************************************************************)
(* dfs(grid, start, goal, optimalPathLength, terrain)                      *)
(***************************************************************************)
CallDfs ==
  /\ algorithm = "bfs"
  /\ CallUninformed("dfs")

\* One iteration of the while loop of dfs; a TypeError of getTerrainCost
\* ends the call without a result.
DfsIterate ==
  /\ algorithm = "dfs" /\ pc = "loop"
  /\ Len(frontier) > 0
  /\ LET taken == pop(frontier)
         current == taken.node
         expanded == nodesExpanded + 1
         trace == Append(visitedNodes, <<current.row, current.col>>)
     IN /\ nodesExpanded' = expanded
        /\ visitedNodes' = trace
        /\ IF current.row = goal[1] /\ current.col = goal[2]
             THEN /\ results' = [results EXCEPT !.dfs =
                                   successResult(current, expanded,
                                                 totalSuccessors, trace)]
                  /\ pc' = "idle"
                  /\ frontier' = taken.rest
                  /\ UNCHANGED <<visited, totalSuccessors>>
             ELSE LET acc == dfsExplore(current, Len(directions),
                                [queue |-> taken.rest, visited |-> visited,
                                 successorsGenerated |-> 0, threw |-> FALSE])
                  IN /\ frontier' = acc.queue
                     /\ visited' = acc.visited
                     /\ IF acc.threw
                          THEN /\ results' = [results EXCEPT !.dfs = Threw]
                               /\ pc' = "idle"
                               /\ UNCHANGED totalSuccessors
                          ELSE /\ totalSuccessors' =
                                    totalSuccessors + acc.successorsGenerated
                               /\ UNCHANGED <<pc, results>>
  /\ UNCHANGED <<inputs, algorithm, gScore, totalHeuristic, totalFValue,
               priorityQueue, application>>

\* The stack emptied: the failure result.
DfsFail ==
  /\ algorithm = "dfs" /\ pc = "loop"
  /\ Len(frontier) = 0
  /\ results' = [results EXCEPT !.dfs =
                   failureResult(nodesExpanded, totalSuccessors, visitedNodes)]
  /\ pc' = "idle"
  /\ UNCHANGED <<inputs, algorithm, locals, priorityQueue, application>>

(***************************************************************************)
(* aStar(grid, start, goal, heuristicName, optimalPathLength, terrain)     *)
(***************************************************************************)
\* The local state aStar sets up before its main loop, under a heuristic
\* name whose lookup yields a function.
SetUpAStar(name) ==
  /\ pc = "idle"
  /\ heuristicFunc(name) \in HeuristicNames
  /\ heuristicName' = name
  /\ frontier' = enqueue(<<>>,
                         [row |-> start[1], col |-> start[2],
                          path |-> <<start>>, g |-> 0],
                         heuristic(heuristicFunc(name), start, goal))
  /\ algorithm' = "astar"
  /\ pc' = "loop"
  /\ visited' = {}
  /\ gScore' = (Key(start[1], start[2]) :> 0)
  /\ visitedNodes' = <<>>
  /\ nodesExpanded' = 0
  /\ totalSuccessors' = 0
  /\ totalHeuristic' = [n |-> 0, roots |-> <<>>]
  /\ totalFValue' = [n |-> 0, roots |-> <<>>]

\* The call with a heuristic name whose lookup yields a function.
CallAStar ==
  /\ algorithm \in {"dfs", "astar"}
  /\ \E name \in NextNames(results) : SetUpAStar(name)
  /\ UNCHANGED <<args, results, priorityQueue, application>>

\* The end of a call of aStar with any other heuristic name:
\* HEURISTICS[heuristicName].func, or the call heuristic(start, goal) of an
\* undefined func, is a TypeError raised before the open set holds an entry;
\* no local state survives.
AStarThrowsAtSetUp(name) ==
  /\ pc = "idle"
  /\ heuristicFunc(name) \notin HeuristicNames
  /\ heuristicName' = name
  /\ algorithm' = "astar"
  /\ pc' = "idle"
  /\ frontier' = <<>>
  /\ visited' = {}
  /\ gScore' = <<>>
  /\ visitedNodes' = <<>>
  /\ nodesExpanded' = 0
  /\ totalSuccessors' = 0
  /\ totalHeuristic' = [n |-> 0, roots |-> <<>>]
  /\ totalFValue' = [n |-> 0, roots |-> <<>>]

\* The call with a heuristic name whose lookup yields no function.
CallAStarThrows ==
  /\ algorithm \in {"dfs", "astar"}
  /\ \E name \in NextNames(results) :
       /\ AStarThrowsAtSetUp(name)
       /\ results' = [results EXCEPT ![name] = Threw]
  /\ UNCHANGED <<args, priorityQueue, application>>

\* One iteration of the while loop of aStar: a stale entry is discarded,
\* any other entry is closed and expanded; a TypeError of getTerrainCost
\* ends the call without a result.
AStarIterate ==
  /\ algorithm = "astar" /\ pc = "loop"
  /\ Len(frontier) > 0
  /\ LET taken == dequeue(frontier)
         current == taken.item
         currentKey == Key(current.row, current.col)
     IN IF isClosed(visited, currentKey)
          THEN /\ frontier' = taken.rest
               /\ UNCHANGED <<visited, visitedNodes, nodesExpanded,
                              totalSuccessors, gScore, totalHeuristic,
                              totalFValue, pc, results>>
          ELSE LET closed == visited \cup {currentKey}
                   expanded == nodesExpanded + 1
                   trace == Append(visitedNodes, <<current.row, current.col>>)
                   h == heuristic(heuristicFunc(heuristicName),
                                  <<current.row, current.col>>, goal)
                   f == addG(current.g, h)
                   sumH == addTotal(totalHeuristic, h)
                   sumF == addTotal(totalFValue, f)
               IN /\ visited' = closed
                  /\ nodesExpanded' = expanded
                  /\ visitedNodes' = trace
                  /\ totalHeuristic' = sumH
                  /\ totalFValue' = sumF
                  /\ IF current.row = goal[1] /\ current.col = goal[2]
                       THEN /\ results' = [results EXCEPT ![heuristicName] =
                                             aStarSuccess(current, expanded,
                                               totalSuccessors, trace, sumH, sumF)]
                            /\ pc' = "idle"
                            /\ frontier' = taken.rest
                            /\ UNCHANGED <<totalSuccessors, gScore>>
                       ELSE LET acc == aStarExplore(current, closed, 1,
                                          [openSet |-> taken.rest,
                                           gScore |-> gScore,
                                           successorsGenerated |-> 0,
                                           threw |-> FALSE])
                            IN /\ frontier' = acc.openSet
                               /\ gScore' = acc.gScore
                               /\ IF acc.threw
                                    THEN /\ results' =
                                              [results EXCEPT ![heuristicName] = Threw]
                                         /\ pc' = "idle"
                                         /\ UNCHANGED totalSuccessors
                                    ELSE /\ totalSuccessors' =
                                              totalSuccessors + acc.successorsGenerated
                                         /\ UNCHANGED <<pc, results>>
  /\ UNCHANGED <<inputs, algorithm, priorityQueue, application>>

\* The open set emptied: the failure result.
AStarFail ==
  /\ algorithm = "astar" /\ pc = "loop"
  /\ Len(frontier) = 0
  /\ results' = [results EXCEPT ![heuristicName] =
                   aStarFailure(nodesExpanded, totalSuccessors, visitedNodes,
                                totalHeuristic, totalFValue)]
  /\ pc' = "idle"
  /\ UNCHANGED <<inputs, algorithm, locals, priorityQueue, application>>

Next ==
  \/ CallBfs
  \/ BfsIterate
  \/ BfsFail
  \/ CallDfs
  \/ DfsIterate
  \/ DfsFail
  \/ CallAStar
  \/ CallAStarThrows
  \/ AStarIterate
  \/ AStarFail

Spec == Init /\ [][Next]_vars

\* The inputs of the runs followed to their end: from the top-left to the
\* bottom-right corner, any obstacle list, without terrain or with a terrain
\* of at most MaxFairTerrainDefs cells that are not road.
InitFair ==
  /\ \E obstacles \in ObstacleLists(MaxObstacles),
        defs \in {d \in TerrainDefs : Cardinality(DOMAIN d) <= MaxFairTerrainDefs},
        weighted \in BOOLEAN :
       /\ grid = newGrid(obstacles)
       /\ terrain = IF weighted THEN buildTerrainGrid(obstacles, defs)
                                ELSE NoTerrain
       /\ start = <<0, 0>> /\ start \notin obstacles
       /\ goal = <<Rows - 1, Cols - 1>> /\ goal \notin obstacles
       /\ preset = PresetOptima(grid, terrain, start, goal)
       /\ optimalPathLength = IF weighted THEN preset.optimalPathCost
                                          ELSE preset.optimalPathLength
  /\ InitCalls
  /\ InitQueue
  /\ InitNoApp

\* A call runs synchronously to its return statement: a search that is in
\* its main loop takes its next step.  Every state with pc = "loop" enables
\* the iteration or the failure return of the running search, and each of
\* them changes the state, so this is weak fairness of the loop steps,
\* with their enabling condition written out.  Nothing obliges the caller
\* to make a further call.
LoopFairness == []<>(pc # "loop") \/ []<><<pc = "loop">>_vars

FairSpec == InitFair /\ [][Next]_vars /\ LoopFairness

(***************************************************************************)
(* A PriorityQueue driven by any sequence of enqueue and dequeue calls.    *)
(* The item of an entry is the number of the enqueue call that added it.   *)
(***************************************************************************)
\* The priorities enqueued, in ascending order: sqrt(2), 2, 1 + sqrt(2).
Priorities == <<[n |-> 0, r |-> 2], [n |-> 2, r |-> 0], [n |-> 1, r |-> 2]>>

\* The search component is at rest on an empty grid.
InitIdleSearch ==
  /\ grid = newGrid({})
  /\ terrain = NoTerrain
  /\ start = <<0, 0>>
  /\ goal = <<0, 0>>
  /\ preset = PresetOptima(grid, terrain, start, goal)
  /\ optimalPathLength = preset.optimalPathLength
  /\ InitCalls

InitPriorityQueue == InitIdleSearch /\ InitQueue /\ InitNoApp

\* queue.enqueue(item, priority)
CallEnqueue ==
  /\ enqueued < MaxEnqueues
  /\ \E i \in 1 .. Len(Priorities) :
       queueItems' = enqueue(queueItems, enqueued + 1, Priorities[i])
  /\ enqueued' = enqueued + 1
  /\ UNCHANGED <<search, application, returned>>

\* queue.dequeue() on a queue that holds an entry.
CallDequeue ==
  /\ queueItems # <<>>
  /\ queueItems' = dequeue(queueItems).rest
  /\ returned' = [item |-> dequeue(queueItems).item]
  /\ UNCHANGED <<search, application, enqueued>>

\* queue.dequeue() on an empty queue: items.shift() is undefined and the
\* read of its item is a TypeError.
CallDequeueEmpty ==
  /\ queueItems = <<>>
  /\ returned' = Threw
  /\ UNCHANGED <<search, application, queueItems, enqueued>>

NextPriorityQueue ==
  \/ CallEnqueue
  \/ CallDequeue
  \/ CallDequeueEmpty

SpecPriorityQueue == InitPriorityQueue /\ [][NextPriorityQueue]_vars

(***************************************************************************)
(* The App component: its handlers.                                        *)
(***************************************************************************)
\* initializeGrid(): the grid, the terrain and the references of the preset
\* of the selected size, and a cleared display.  size and mode are the
\* values of gridSize and terrainMode the effect was scheduled with.
initializeGrid(size, mode) ==
  LET selected == gridPresets[size]
      newGrid_ == newGridOfList(selected.rows, selected.cols, selected.obstacles)
      terrainData == IF mode = "weighted"
                       THEN buildTerrainGridOfLists(selected.rows, selected.cols,
                              selected.obstacles, selected.terrain)
                       ELSE NoTerrain
      optima == PresetOptima(newGrid_, terrainData, selected.start, selected.goal)
  IN /\ grid' = newGrid_
     /\ terrain' = terrainData
     /\ start' = selected.start
     /\ goal' = selected.goal
     /\ preset' = optima
     /\ optimalPathLength' = IF mode = "simple" THEN optima.optimalPathLength
                                                ELSE optima.optimalPathCost
     /\ visitedCells' = <<>>
     /\ pathCells' = <<>>
     /\ currentCell' = NoCell
     /\ shownResults' = NoResult

\* No search is in progress and handleStart is idle or waits for a timer:
\* an event handler or a timer callback can run.
BetweenTasks ==
  pc = "idle" /\ appPc \in {"idle", "visited", "pause", "path"}

\* The local state of a search that is not running.
NoSearchLocals ==
  /\ frontier = <<>>
  /\ visited = {}
  /\ visitedNodes = <<>>
  /\ nodesExpanded = 0
  /\ totalSuccessors = 0
  /\ gScore = <<>>
  /\ totalHeuristic = [n |-> 0, roots |-> <<>>]
  /\ totalFValue = [n |-> 0, roots |-> <<>>]

\* useEffect(() => initializeGrid(), [gridSize, terrainMode]) after the
\* first render.
MountEffect ==
  /\ appPc = "mounting"
  /\ initializeGrid(gridSize, terrainMode)
  /\ appPc' = "idle"
  /\ UNCHANGED <<heuristicName, algorithm, pc, locals, results, priorityQueue,
                 gridPresets, controls, isRunning, algorithmResults, index>>

\* A control that stays enabled while a run is in progress.
disabledNever(running) == FALSE

\* disabled={isRunning} on the buttons, the selects and the radio inputs of
\* Controls.
disabled(running) == running

\* The terrain-mode radio inputs: setTerrainMode(e.target.value), and the
\* effect that follows the change of terrainMode.
ChangeTerrainMode(value) ==
  /\ BetweenTasks
  /\ ~disabled(isRunning)
  /\ value # terrainMode
  /\ terrainMode' = value
  /\ initializeGrid(gridSize, value)
  /\ UNCHANGED <<heuristicName, algorithm, pc, locals, results, priorityQueue,
                 gridPresets, gridSize, selectedAlgorithm, selectedHeuristic,
                 isRunning, appPc, algorithmResults, index>>

\* App before its first effect: no grid, no terrain, start and goal null.
InitUnmounted ==
  /\ grid = <<>>
  /\ terrain = NoTerrain
  /\ start = NoCell
  /\ goal = NoCell
  /\ preset = NoOptima
  /\ optimalPathLength = 0
  /\ InitCalls
  /\ InitQueue
  /\ InitApplication

(***************************************************************************)
(* initializeGrid and buildTerrainGrid on any preset lists: the grid is     *)
(* initialised on mount and again each time the terrain mode changes.      *)
(***************************************************************************)
\* The cells the lists are drawn from: two in range, and one beyond each
\* side of the grid.
ListCells ==
  {<<0, 1>>, <<1, 1>>, <<-1, 0>>, <<Rows, 1>>, <<1, -1>>, <<0, Cols>>}

ListsOver(S) == UNION {[1 .. n -> S] : n \in 0 .. MaxListLength}

TerrainDefLists ==
  ListsOver({[row |-> p[1], col |-> p[2], type |-> t] :
               p \in ListCells, t \in PresetTerrainTypes})

InitAnyPreset ==
  /\ \E obstacles \in ListsOver(ListCells), terrainDefs \in TerrainDefLists :
       gridPresets =
         [size \in {"small"} |->
            [rows |-> Rows, cols |-> Cols,
             start |-> <<0, 0>>, goal |-> <<Rows - 1, Cols - 1>>,
             obstacles |-> obstacles, terrain |-> terrainDefs]]
  /\ InitUnmounted

NextInitializeGrid ==
  \/ MountEffect
  \/ \E value \in {"simple", "weighted"} : ChangeTerrainMode(value)

SpecInitializeGrid == InitAnyPreset /\ [][NextInitializeGrid]_vars

(***************************************************************************)
(* The App component on GRID_PRESETS: the controls, handleStart and        *)
(* visualizeAlgorithm.  handleStart runs the selected search to its return *)
(* in one task (the steps of the search are those of bfs, dfs and aStar     *)
(* above, and nothing of App runs between them) and then gives way at each *)
(* await sleep(...) of visualizeAlgorithm.                                 *)
(***************************************************************************)
\* The values a select element can hand to setHeuristic: the three options,
\* and names HEURISTICS does not define.
HeuristicValues == HeuristicNames \cup UnknownNames

InitApp == gridPresets = GRID_PRESETS /\ InitUnmounted

\* The grid-size select: setGridSize(e.target.value), and the effect that
\* follows the change of gridSize.
ChangeGridSize(value) ==
  /\ BetweenTasks
  /\ ~disabled(isRunning)
  /\ value # gridSize
  /\ gridSize' = value
  /\ initializeGrid(value, terrainMode)
  /\ UNCHANGED <<heuristicName, algorithm, pc, locals, results, priorityQueue,
                 gridPresets, terrainMode, selectedAlgorithm, selectedHeuristic,
                 isRunning, appPc, algorithmResults, index>>

\* The algorithm select: setAlgorithm(e.target.value).
SelectAlgorithm(value) ==
  /\ BetweenTasks
  /\ ~disabled(isRunning)
  /\ value # selectedAlgorithm
  /\ selectedAlgorithm' = value
  /\ UNCHANGED <<search, priorityQueue, gridPresets, gridSize, terrainMode,
                 selectedHeuristic, display, isRunning, appPc,
                 algorithmResults, index>>

\* The heuristic select, rendered when A* is selected:
\* setHeuristic(e.target.value).
SelectHeuristic(value) ==
  /\ BetweenTasks
  /\ selectedAlgorithm = "astar"
  /\ ~disabled(isRunning)
  /\ value # selectedHeuristic
  /\ selectedHeuristic' = value
  /\ UNCHANGED <<search, priorityQueue, gridPresets, gridSize, terrainMode,
                 selectedAlgorithm, display, isRunning, appPc,
                 algorithmResults, index>>

\* The reset button: handleReset calls initializeGrid.
HandleReset ==
  /\ BetweenTasks
  /\ ~disabled(isRunning)
  /\ initializeGrid(gridSize, terrainMode)
  /\ UNCHANGED <<heuristicName, algorithm, pc, locals, results, priorityQueue,
                 gridPresets, controls, isRunning, appPc, algorithmResults, index>>

\* handleStart up to the call of the selected algorithm: nothing happens
\* while isRunning is true; else the display is cleared, isRunning is set
\* and the algorithm is called on the state of App.
HandleStart ==
  /\ BetweenTasks
  /\ IF isRunning
       THEN UNCHANGED vars
       ELSE /\ isRunning' = TRUE
            /\ visitedCells' = <<>>
            /\ pathCells' = <<>>
            /\ currentCell' = NoCell
            /\ shownResults' = NoResult
            /\ appPc' = "searching"
            /\ IF selectedAlgorithm = "dfs"
                 THEN SetUpUninformed("dfs") /\ UNCHANGED <<inputs, results>>
               ELSE IF selectedAlgorithm = "astar"
                 THEN IF heuristicFunc(selectedHeuristic) \in HeuristicNames
                        THEN /\ SetUpAStar(selectedHeuristic)
                             /\ UNCHANGED <<args, results>>
                        ELSE /\ AStarThrowsAtSetUp(selectedHeuristic)
                             /\ results' = [results EXCEPT
                                              ![selectedHeuristic] = Threw]
                             /\ UNCHANGED args
               ELSE SetUpUninformed("bfs") /\ UNCHANGED <<inputs, results>>
            /\ UNCHANGED <<priorityQueue, gridPresets, controls,
                           algorithmResults, index>>

\* The search handleStart called is over and its local state is gone.
SearchReturned ==
  /\ algorithm' = "none"
  /\ heuristicName' = "manhattan"
  /\ frontier' = <<>>
  /\ visited' = {}
  /\ visitedNodes' = <<>>
  /\ nodesExpanded' = 0
  /\ totalSuccessors' = 0
  /\ gScore' = <<>>
  /\ totalHeuristic' = [n |-> 0, roots |-> <<>>]
  /\ totalFValue' = [n |-> 0, roots |-> <<>>]
  /\ results' = [a \in CallNames |-> NoResult]
  /\ UNCHANGED <<args, pc>>

\* A handleStart that returns without setIsRunning(false).
finishRunStillRunning ==
  /\ isRunning' = isRunning
  /\ appPc' = "idle"
  /\ algorithmResults' = NoResult
  /\ index' = 0

\* The end of a run: setIsRunning(false), and handleStart returns.
finishRun ==
  /\ isRunning' = FALSE
  /\ appPc' = "idle"
  /\ algorithmResults' = NoResult
  /\ index' = 0

\* array.slice(0, end) with the first position left out.
sliceAfterFirst(array, end) == SubSeq(array, 2, end)

\* array.slice(0, end), for 0 <= end: the first end elements, all of them
\* when there are fewer.
slice(array, end) ==
  SubSeq(array, 1, IF end < Len(array) THEN end ELSE Len(array))

\* handleStart from the return of the algorithm to its first await: an
\* error is caught and the run ends; a result is stored with setResults and
\* visualizeAlgorithm shows the first visited node.
HandleStartReturn ==
  /\ appPc = "searching" /\ pc = "idle"
  /\ LET returnValue == results[IF algorithm = "astar" THEN heuristicName
                                                       ELSE algorithm]
     IN IF returnValue = Threw
          THEN /\ finishRun
               /\ UNCHANGED display
          ELSE /\ shownResults' = returnValue
               /\ algorithmResults' = returnValue
               /\ index' = 0
               /\ IF Len(returnValue.visitedNodes) > 0
                    THEN /\ currentCell' = returnValue.visitedNodes[1]
                         /\ visitedCells' = slice(returnValue.visitedNodes, 0 + 1)
                         /\ appPc' = "visited"
                    ELSE /\ currentCell' = NoCell
                         /\ appPc' = "pause"
                         /\ UNCHANGED visitedCells
               /\ UNCHANGED <<pathCells, isRunning>>
  /\ SearchReturned
  /\ UNCHANGED <<priorityQueue, gridPresets, controls>>

\* visualizeAlgorithm after await sleep(delay): the next visited node, or
\* setCurrentCell(null) when all have been shown.
VisitedTick ==
  /\ appPc = "visited" /\ pc = "idle"
  /\ LET i == index + 1
         shown == algorithmResults.visitedNodes
     IN /\ index' = i
        /\ IF i < Len(shown)
             THEN /\ currentCell' = shown[i + 1]
                  /\ visitedCells' = slice(shown, i + 1)
                  /\ UNCHANGED appPc
             ELSE /\ currentCell' = NoCell
                  /\ appPc' = "pause"
                  /\ UNCHANGED visitedCells
  /\ UNCHANGED <<search, priorityQueue, gridPresets, controls, pathCells,
                 shownResults, isRunning, algorithmResults>>

\* visualizeAlgorithm after await sleep(300): the first position of the
\* path; without a path visualizeAlgorithm returns and the run ends.
PauseTick ==
  /\ appPc = "pause" /\ pc = "idle"
  /\ IF Len(algorithmResults.path) > 0
       THEN /\ pathCells' = slice(algorithmResults.path, 0 + 1)
            /\ index' = 0
            /\ appPc' = "path"
            /\ UNCHANGED <<isRunning, algorithmResults>>
       ELSE /\ finishRun
            /\ UNCHANGED pathCells
  /\ UNCHANGED <<search, priorityQueue, gridPresets, controls, visitedCells,
                 currentCell, shownResults>>

\* visualizeAlgorithm after await sleep(80): the next position of the path;
\* after the last one visualizeAlgorithm returns and the run ends.
PathTick ==
  /\ appPc = "path" /\ pc = "idle"
  /\ LET i == index + 1
     IN IF i < Len(algorithmResults.path)
          THEN /\ pathCells' = slice(algorithmResults.path, i + 1)
               /\ index' = i
               /\ UNCHANGED <<isRunning, appPc, algorithmResults>>
          ELSE /\ finishRun
               /\ UNCHANGED pathCells
  /\ UNCHANGED <<search, priorityQueue, gridPresets, controls, visitedCells,
                 currentCell, shownResults>>

\* The steps of the search handleStart has called.
SearchStep ==
  /\ appPc = "searching"
  /\ \/ BfsIterate
     \/ BfsFail
     \/ DfsIterate
     \/ DfsFail
     \/ AStarIterate
     \/ AStarFail

NextApp ==
  \/ MountEffect
  \/ \E value \in {"simple", "weighted"} : ChangeTerrainMode(value)
  \/ \E value \in GridSizes : ChangeGridSize(value)
  \/ \E value \in {"bfs", "dfs", "astar"} : SelectAlgorithm(value)
  \/ \E value \in HeuristicValues : SelectHeuristic(value)
  \/ HandleReset
  \/ HandleStart
  \/ SearchStep
  \/ HandleStartReturn
  \/ VisitedTick
  \/ PauseTick
  \/ PathTick

SpecApp == InitApp /\ [][NextApp]_vars

\* Timers fire and the task that runs the search goes on to its end: each
\* await sleep(...) of visualizeAlgorithm resumes, a search in its main loop
\* takes its next step (LoopFairness), and handleStart resumes when the
\* search has returned.  Nothing obliges the user to act.
FairSpecApp ==
  /\ SpecApp
  /\ LoopFairness
  /\ WF_vars(HandleStartReturn)
  /\ WF_vars(VisitedTick)
  /\ WF_vars(PauseTick)
  /\ WF_vars(PathTick)

(***************************************************************************)
(* Properties.                                                             *)
(***************************************************************************)
\* The goal can be reached from start through 4-adjacent free cells.
GoalReachable == preset.optimalPathLength # 0

\* The call named a has returned a result.
HasReturned(a) == results[a] \notin {NoResult, Threw}

FreeCells == {p \in Pos : Free(grid, p)}

Succeeded(a) == HasReturned(a) /\ results[a].success

\* C1: whenever the goal is reachable, aStar under each of the three
\* heuristics returns a pathCost equal to the minimum cost over all
\* 4-directional free-cell paths, hence no greater than the pathCost of bfs
\* and of dfs on the same inputs.
C1_AStarCostOptimal ==
  \A h \in HeuristicNames :
    (HasReturned(h) /\ GoalReachable) =>
      /\ results[h].success
      /\ results[h].pathCost = preset.optimalPathCost
      /\ \A u \in {"bfs", "dfs"} :
           Succeeded(u) => results[h].pathCost <= results[u].pathCost

\* aStar has found, on a terrain, a path strictly cheaper than the one of bfs.
C1_Witness ==
  /\ terrain # NoTerrain
  /\ Succeeded("bfs") /\ Succeeded("chebyshev")
  /\ results["chebyshev"].pathCost < results["bfs"].pathCost
  /\ results["chebyshev"].pathCost = preset.optimalPathCost

\* C2: whenever the goal is reachable, the path of bfs has 1 + the shortest
\* step distance positions, with and without terrain.
C2_BfsStepOptimal ==
  (HasReturned("bfs") /\ GoalReachable) =>
    /\ results["bfs"].success
    /\ results["bfs"].pathLength = preset.optimalPathLength

\* bfs has returned a shortest path that goes around obstacles.
C2_Witness ==
  /\ Succeeded("bfs")
  /\ results["bfs"].pathLength = preset.optimalPathLength
  /\ results["bfs"].pathLength > manhattanDistance(start, goal).n + 1

\* C3: for bfs, dfs and aStar the result has success = true exactly when the
\* goal is reachable from start.
C3_SuccessIffReachable ==
  \A a \in RunNames :
    HasReturned(a) => (results[a].success <=> GoalReachable)

\* Every search has failed on an unreachable goal after expanding several
\* nodes.
C3_Witness ==
  /\ HasReturned("chebyshev")
  /\ ~GoalReachable
  /\ \A a \in RunNames : ~results[a].success /\ results[a].nodesExpanded >= 3

\* The goal is a free cell other than start whose in-bounds neighbours are
\* all obstacles.
GoalEnclosed ==
  /\ goal # start
  /\ \A q \in Pos : Adjacent(q, goal) => grid[q] = "obstacle"

\* C4 as stated: with the goal enclosed, every search returns success =
\* false, path = [] and a completionPercentage equal to 100.
C4_EnclosedGoalComplete ==
  \A a \in RunNames :
    (HasReturned(a) /\ GoalEnclosed) =>
      /\ ~results[a].success
      /\ results[a].path = <<>>
      /\ results[a].completionPercentage.num =
           100 * results[a].completionPercentage.den

\* C4: with the goal enclosed, every search returns success = false,
\* path = [] and completionPercentage = 100 * nodesExpanded /
\* totalFreeSpaces, which stays below 100 as the free goal cell is counted
\* but never expanded.
C4_EnclosedGoalFails ==
  \A a \in RunNames :
    (HasReturned(a) /\ GoalEnclosed) =>
      /\ ~results[a].success
      /\ results[a].path = <<>>
      /\ results[a].completionPercentage =
           Ratio(100 * results[a].nodesExpanded, Cardinality(FreeCells))
      /\ results[a].nodesExpanded < Cardinality(FreeCells)
      /\ results[a].completionPercentage.num <
           100 * results[a].completionPercentage.den

\* All five searches have failed on an enclosed goal after exploring the
\* rest of the grid.
C4_Witness ==
  /\ GoalEnclosed
  /\ \A a \in RunNames :
       HasReturned(a) /\ results[a].nodesExpanded = Cardinality(FreeCells) - 1
  /\ Cardinality(FreeCells) > 3

\* A trace of expanded positions: as long as the counter, without
\* repetition, made of in-bounds free cells.
TraceOK(n, trace) ==
  /\ n = Len(trace)
  /\ \A i, j \in 1 .. Len(trace) : i # j => trace[i] # trace[j]
  /\ \A i \in 1 .. Len(trace) : trace[i] \in Pos /\ grid[trace[i]] # "obstacle"

\* C5: during every search and in every result, nodesExpanded is the length
\* of visitedNodes, no position occurs twice in visitedNodes, and every
\* visited position is in bounds and free.
C5_VisitedNodesUnique ==
  /\ TraceOK(nodesExpanded, visitedNodes)
  /\ \A a \in RunNames :
       HasReturned(a) => TraceOK(results[a].nodesExpanded, results[a].visitedNodes)

\* aStar holds a queue entry for a position it has already expanded.
C5_Witness ==
  /\ algorithm = "astar" /\ pc = "loop"
  /\ nodesExpanded >= 3
  /\ \E i \in 1 .. Len(frontier) :
       Key(frontier[i].item.row, frontier[i].item.col) \in visited

\* A path from start to goal over 4-adjacent in-bounds free cells, without
\* repetition.
PathOK(path) ==
  /\ Len(path) >= 1
  /\ path[1] = start
  /\ path[Len(path)] = goal
  /\ \A i \in 1 .. Len(path) - 1 : Adjacent(path[i], path[i + 1])
  /\ \A i \in 1 .. Len(path) : path[i] \in Pos /\ grid[path[i]] # "obstacle"
  /\ \A i, j \in 1 .. Len(path) : i # j => path[i] # path[j]

\* C6: the path of every successful result leads from start to goal over
\* 4-adjacent in-bounds free cells without repetition and pathLength is its
\* number of positions; every failure result has an empty path and
\* pathLength 0.
C6_PathWellFormed ==
  \A a \in RunNames :
    HasReturned(a) =>
      IF results[a].success
        THEN /\ PathOK(results[a].path)
             /\ results[a].pathLength = Len(results[a].path)
        ELSE /\ results[a].path = <<>>
             /\ results[a].pathLength = 0

\* dfs has returned a winding path, longer than the shortest one.
C6_Witness ==
  /\ Succeeded("dfs")
  /\ results["dfs"].pathLength >= 7
  /\ results["dfs"].pathLength > preset.optimalPathLength

\* p <= q for values n + sqrt(r).
PriorityLeq(p, q) == ~priorityLess(q, p)

\* Two quotients are the same number.
SameRatio(a, b) ==
  IF a.den = 0 \/ b.den = 0 THEN a = b
  ELSE a.num * b.den = b.num * a.den

\* The least number of steps from start to goal.
StepsToGoal == preset.optimalPathLength - 1

\* C8: the heuristic value aStar computes for a free position from which
\* the goal is reachable (the start position, which ranges over all free
\* cells) is at most the true shortest 4-directional step distance to the
\* goal, for each of the three heuristics.
C8_HeuristicAdmissible ==
  (/\ algorithm = "astar" /\ pc = "loop" /\ nodesExpanded = 0
   /\ GoalReachable) =>
    /\ Len(frontier) = 1
    /\ frontier[1].priority = heuristic(heuristicName, start, goal)
    /\ PriorityLeq(frontier[1].priority, [n |-> StepsToGoal, r |-> 0])

\* aStar has seeded the open set with an irrational Euclidean estimate that
\* lies strictly below a distance lengthened by obstacles.
C8_Witness ==
  /\ algorithm = "astar" /\ pc = "loop" /\ nodesExpanded = 0
  /\ heuristicName = "euclidean"
  /\ GoalReachable
  /\ frontier[1].priority.r # 0
  /\ StepsToGoal > manhattanDistance(start, goal).n

\* C9: the pathOptimalityRatio of every successful aStar result is at most
\* 1 when optimalPathLength is the true optimum of the active mode.
C9_AStarRatioAtMostOne ==
  \A h \in HeuristicNames :
    (/\ Succeeded(h)
     /\ optimalPathLength = IF terrain = NoTerrain
                               THEN preset.optimalPathLength
                               ELSE preset.optimalPathCost) =>
      results[h].pathOptimalityRatio.num <= results[h].pathOptimalityRatio.den

\* C10: the pathOptimalityRatio of every successful result is
\* optimalPathLength / pathLength without terrain and optimalPathLength /
\* pathCost with a terrain overlay, the ratio the Metrics component derives
\* from the same result.
C10_RatioFollowsMode ==
  \A a \in RunNames :
    Succeeded(a) =>
      /\ SameRatio(results[a].pathOptimalityRatio,
                   Ratio(optimalPathLength,
                         IF terrain = NoTerrain THEN results[a].pathLength
                                                ELSE results[a].pathCost))
      /\ SameRatio(results[a].pathOptimalityRatio, optimalityRatio(results[a]))

\* A quotient with a positive denominator that lies in [0, bound].
RatioWithin(q, bound) ==
  /\ q.den > 0
  /\ q.num >= 0
  /\ q.num <= bound * q.den

\* C11: every result has branchingFactor >= 0 and a completionPercentage in
\* [0, 100]; every successful result has a penetrance in [0, 1], that is
\* pathLength <= nodesExpanded <= totalFreeSpaces.
C11_MetricsInRange ==
  \A a \in RunNames :
    HasReturned(a) =>
      /\ results[a].branchingFactor.den > 0
      /\ results[a].branchingFactor.num >= 0
      /\ RatioWithin(results[a].completionPercentage, 100)
      /\ results[a].nodesExpanded <= Cardinality(FreeCells)
      /\ results[a].success =>
           /\ RatioWithin(results[a].penetrance, 1)
           /\ results[a].penetrance =
                [num |-> results[a].pathLength, den |-> results[a].nodesExpanded]
           /\ results[a].pathLength <= results[a].nodesExpanded

\* dfs has found the goal only after expanding every free cell (completion
\* 100, penetrance below 1) while aStar has expanded nothing but the nodes
\* of its path (penetrance 1).
C11_Witness ==
  /\ Succeeded("dfs") /\ Succeeded("manhattan")
  /\ results["dfs"].nodesExpanded = Cardinality(FreeCells)
  /\ results["dfs"].pathLength < results["dfs"].nodesExpanded
  /\ results["manhattan"].pathLength = results["manhattan"].nodesExpanded
  /\ results["manhattan"].pathLength >= 3
  /\ results["dfs"].branchingFactor.num > 0

TerrainMismatched == terrain # NoTerrain /\ DOMAIN terrain # Pos

\* C13: with a terrain overlay whose dimensions differ from the grid's, no
\* search expands a node and none returns a result.
C13_MismatchFailsFast ==
  TerrainMismatched =>
    /\ nodesExpanded = 0
    /\ \A a \in RunNames : ~HasReturned(a)

\* C14: every result returned by bfs, dfs and aStar, on success and on
\* failure, has the fields nodesExpanded, totalSuccessors and executionTime,
\* so that the Metrics component can show results.totalSuccessors.
C14_ResultsCarryCounters ==
  \A a \in RunNames :
    HasReturned(a) =>
      /\ {"nodesExpanded", "totalSuccessors", "executionTime"}
           \subseteq DOMAIN results[a]
      /\ generatedNodes(results[a]) # TypeError

\* The local state a call starts its main loop with.
FreshState ==
  /\ visitedNodes' = <<>>
  /\ nodesExpanded' = 0
  /\ totalSuccessors' = 0
  /\ Len(frontier') = 1
  /\ IF algorithm' = "astar"
       THEN /\ frontier'[1].item = [row |-> start[1], col |-> start[2],
                                    path |-> <<start>>, g |-> 0]
            /\ visited' = {}
            /\ gScore' = (Key(start[1], start[2]) :> 0)
            /\ totalHeuristic' = [n |-> 0, roots |-> <<>>]
            /\ totalFValue' = [n |-> 0, roots |-> <<>>]
       ELSE /\ frontier'[1] = [row |-> start[1], col |-> start[2],
                               path |-> <<start>>, cost |-> 0]
            /\ visited' = {Key(start[1], start[2])}

\* C15: no step of bfs, dfs or aStar changes the grid, the terrain, start
\* or goal, and every call enters its main loop with a queue, visited set,
\* g-score map and counters that hold nothing of the calls before it.
C15_InputsUnchangedFreshState ==
  [][/\ grid' = grid /\ terrain' = terrain
     /\ start' = start /\ goal' = goal
     /\ (pc = "idle" /\ pc' = "loop") => FreshState]_vars

\* dfs starts on the inputs bfs was given, after bfs left a visited set of
\* several positions and a non-empty queue behind.
C15_Witness ==
  /\ algorithm = "dfs" /\ pc = "loop" /\ nodesExpanded = 0
  /\ visited = {Key(start[1], start[2])}
  /\ Succeeded("bfs")
  /\ results["bfs"].nodesExpanded >= 5
  /\ results["bfs"].nodesExpanded < Cardinality(FreeCells)

\* The call in progress, or the last one made.
CurrentRun == IF algorithm = "astar" THEN heuristicName ELSE algorithm

\* A search in its main loop can take a step that changes the state: it
\* returns its failure result, or removes an entry from its frontier.
LoopAdvances ==
  pc = "loop" =>
    /\ algorithm \in {"bfs", "dfs", "astar"}
    /\ frontier # <<>> =>
         Len(CASE algorithm = "bfs" -> shift(frontier).rest
               [] algorithm = "dfs" -> pop(frontier).rest
               [] algorithm = "astar" -> dequeue(frontier).rest) < Len(frontier)

\* C16: on inputs whose terrain, if any, fits the grid, a search never
\* expands more nodes than there are free cells, and every search that has
\* entered its main loop eventually leaves it with a success or a failure
\* result.
C16_SearchTerminates ==
  /\ [](~TerrainMismatched => nodesExpanded <= Cardinality(FreeCells))
  /\ []LoopAdvances
  /\ (pc = "loop" /\ ~TerrainMismatched)
       ~> (pc = "idle" /\ algorithm # "none" /\ HasReturned(CurrentRun))

\* aStar has returned a failure after expanding every cell it could reach,
\* the searches before it having returned too.
C16_Witness ==
  /\ ~TerrainMismatched
  /\ algorithm = "astar" /\ pc = "idle" /\ heuristicName = "chebyshev"
  /\ \A a \in RunNames : HasReturned(a)
  /\ ~results["chebyshev"].success
  /\ results["chebyshev"].nodesExpanded >= 5
  /\ Succeeded("bfs") = FALSE

\* The positions of the entries of an open set.
KeyOf(entry) == Key(entry.item.row, entry.item.col)

\* The open set holds an entry and the one at its head is not stale: the
\* next iteration closes and expands its position.
AboutToClose ==
  /\ algorithm = "astar" /\ pc = "loop"
  /\ frontier # <<>>
  /\ KeyOf(Head(frontier)) \notin visited

\* C17: in aStar, under each of the three heuristics, the entry whose
\* position is closed carries the least cost of a free-cell path from start
\* to that position; the closed set only grows, the position closed by an
\* iteration was not closed before, and no entry pushed by an iteration
\* lies on a closed position.
C17_ClosedCostOptimal ==
  /\ [](AboutToClose =>
         Head(frontier).item.g =
           DistOf(preset.costFromStart,
                  <<Head(frontier).item.row, Head(frontier).item.col>>))
  /\ [][(algorithm = "astar" /\ pc = "loop") =>
          /\ visited \subseteq visited'
          /\ nodesExpanded' # nodesExpanded =>
               /\ AboutToClose
               /\ visited' = visited \cup {KeyOf(Head(frontier))}
               /\ visitedNodes' = Append(visitedNodes,
                                         <<Head(frontier).item.row,
                                           Head(frontier).item.col>>)
          /\ \A i \in 1 .. Len(frontier') :
               (\A j \in 1 .. Len(frontier) : frontier'[i] # frontier[j]) =>
                  KeyOf(frontier'[i]) \notin visited']_vars

\* On a terrain, aStar is about to close a position at its least cost
\* while a costlier entry for the same position, pushed earlier, is still
\* in the open set.
C17_Witness ==
  /\ AboutToClose
  /\ terrain # NoTerrain
  /\ nodesExpanded >= 2
  /\ \E i \in 2 .. Len(frontier) :
       /\ KeyOf(frontier[i]) = KeyOf(Head(frontier))
       /\ frontier[i].item.g > Head(frontier).item.g

\* bfs or dfs is in its main loop.
UninformedLoop == algorithm \in {"bfs", "dfs"} /\ pc = "loop"

\* The position of a node of the queue or stack.
PositionOf(node) == Key(node.row, node.col)

\* The indices of the nodes an iteration has pushed: it removed one node
\* and appended the new ones.
PushedAt == IF frontier = <<>> THEN {} ELSE Len(frontier) .. Len(frontier')

\* C18: in bfs and in dfs, no position occurs twice in the frontier, every
\* frontier position is in the visited set, the visited set holds exactly
\* start and the positions pushed so far, one per push; the visited set
\* only grows and the nodes an iteration pushes lie on positions that were
\* not in the visited set before it, each on another one.
C18_FrontierInvariants ==
  /\ [](UninformedLoop =>
         /\ \A i, j \in 1 .. Len(frontier) :
              i # j => PositionOf(frontier[i]) # PositionOf(frontier[j])
         /\ \A i \in 1 .. Len(frontier) : PositionOf(frontier[i]) \in visited
         /\ Cardinality(visited) = totalSuccessors + 1)
  /\ [][UninformedLoop =>
          /\ visited \subseteq visited'
          /\ \A i \in PushedAt :
               /\ PositionOf(frontier'[i]) \notin visited
               /\ PositionOf(frontier'[i]) \in visited'
               /\ \A j \in PushedAt :
                    i # j => PositionOf(frontier'[i]) # PositionOf(frontier'[j])]_vars

\* dfs holds a stack of several nodes, two of them pushed by sibling
\* expansions next to a position that both could have reached.
C18_Witness ==
  /\ algorithm = "dfs" /\ pc = "loop"
  /\ Len(frontier) >= 4
  /\ nodesExpanded >= 3
  /\ \E p \in visited :
       Cardinality({i \in 1 .. Len(frontier) :
                      Adjacent(PositionOf(frontier[i]), p)}) >= 2

\* The neighbour of node in direction i.
Neighbour(node, i) ==
  <<node.row + directions[i][1], node.col + directions[i][2]>>

\* The directions in which the expansion of node accepts a successor.
AcceptedDirections(node) ==
  {i \in 1 .. Len(directions) :
     validPosition(grid, visited, Neighbour(node, i)[1], Neighbour(node, i)[2])}

\* C19: an iteration of dfs expands the node on top of the stack, and
\* whenever it accepts at least one successor it leaves on top of the stack
\* the accepted neighbour that comes first in the order up, right, down,
\* left: the node the next iteration expands.
C19_DfsExpandsFirstAccepted ==
  [][(algorithm = "dfs" /\ pc = "loop" /\ frontier # <<>>) =>
       LET top == frontier[Len(frontier)]
           accepted == AcceptedDirections(top)
           first == CHOOSE i \in accepted : \A j \in accepted : i <= j
       IN /\ visitedNodes' = Append(visitedNodes, <<top.row, top.col>>)
          /\ totalSuccessors' > totalSuccessors =>
               /\ accepted # {}
               /\ totalSuccessors' = totalSuccessors + Cardinality(accepted)
               /\ PositionOf(frontier'[Len(frontier')]) = Neighbour(top, first)
               /\ frontier'[Len(frontier')].path =
                    Append(top.path, Neighbour(top, first))]_vars

\* The last expansion of dfs accepted several successors: the two nodes on
\* top of the stack are neighbours of the node expanded last, the upper one
\* in an earlier direction than the one below it.
C19_Witness ==
  /\ algorithm = "dfs" /\ pc = "loop"
  /\ nodesExpanded >= 2
  /\ Len(frontier) >= 3
  /\ LET n == Len(frontier)
         last == visitedNodes[Len(visitedNodes)]
         from == [row |-> last[1], col |-> last[2]]
     IN \E i, j \in 1 .. Len(directions) :
          /\ i < j
          /\ PositionOf(frontier[n]) = Neighbour(from, i)
          /\ PositionOf(frontier[n - 1]) = Neighbour(from, j)
          /\ Len(frontier[n].path) = Len(frontier[n - 1].path)
          /\ frontier[n].path[Len(frontier[n].path) - 1] = last
          /\ frontier[n - 1].path[Len(frontier[n - 1].path) - 1] = last

\* The place of a priority in the ascending list Priorities.
RankOf(priority) ==
  CHOOSE i \in 1 .. Len(Priorities) : Priorities[i] = priority

\* The sequence without its k-th element.
Without(seq, k) == SubSeq(seq, 1, k - 1) \o SubSeq(seq, k + 1, Len(seq))

\* Entry k comes before every other entry of the queue: its priority is
\* lower, or equal with an earlier enqueue call.
IsFirstOut(k) ==
  \A j \in 1 .. Len(queueItems) :
    j # k =>
      \/ RankOf(queueItems[k].priority) < RankOf(queueItems[j].priority)
      \/ /\ RankOf(queueItems[k].priority) = RankOf(queueItems[j].priority)
         /\ queueItems[k].item < queueItems[j].item

\* C20: after any sequence of enqueue and dequeue calls, a dequeue removes
\* and returns the entry of minimum priority that was enqueued earliest
\* among those of that priority and leaves the other entries in the queue;
\* an enqueue adds its entry and loses none.
C20_DequeueStableMinimum ==
  [][/\ Len(queueItems') < Len(queueItems) =>
          \E k \in 1 .. Len(queueItems) :
            /\ IsFirstOut(k)
            /\ returned' = [item |-> queueItems[k].item]
            /\ queueItems' = Without(queueItems, k)
     /\ Len(queueItems') > Len(queueItems) =>
          \E k \in 1 .. Len(queueItems') :
            /\ queueItems'[k].item = enqueued'
            /\ queueItems = Without(queueItems', k)]_vars

\* After enqueues and a dequeue, the queue holds two entries of the same
\* priority behind which an entry of lower priority was enqueued, and the
\* last dequeue returned an entry enqueued after one still in the queue.
C20_Witness ==
  /\ Len(queueItems) >= 3
  /\ returned \notin {NoResult, Threw}
  /\ \E i, j \in 1 .. Len(queueItems) :
       /\ i < j
       /\ queueItems[i].priority = queueItems[j].priority
       /\ queueItems[i].item < queueItems[j].item
       /\ returned.item > queueItems[i].item

\* aStar is in its main loop on inputs whose terrain, if any, fits the grid.
AStarLoop == algorithm = "astar" /\ pc = "loop" /\ ~TerrainMismatched

\* The g values of the open-set entries on position key.
OpenG(key) ==
  {frontier[i].item.g : i \in {j \in 1 .. Len(frontier) : KeyOf(frontier[j]) = key}}

\* The neighbour in direction i of the entry at the head of the open set is
\* in bounds, free, not closed once the head is closed, and reached at a g
\* strictly lower than the one recorded for it, or has none recorded.
ShouldPush(i) ==
  LET current == Head(frontier).item
      n == Neighbour(current, i)
      newG == current.g + EnterCost(terrain, n)
  IN /\ n \in Pos
     /\ Free(grid, n)
     /\ n \notin visited \cup {KeyOf(Head(frontier))}
     /\ (n \notin DOMAIN gScore \/ newG < gScore[n])

\* The entry pushed for the neighbour in direction i of the head entry.
PushedEntry(i) ==
  LET current == Head(frontier).item
      n == Neighbour(current, i)
      newG == current.g + EnterCost(terrain, n)
  IN [item |-> [row |-> n[1], col |-> n[2],
                path |-> Append(current.path, n), g |-> newG],
      priority |-> addG(newG, heuristic(heuristicName, n, goal))]

\* The entries of a sequence, as a set.
EntriesOf(seq) == {seq[i] : i \in 1 .. Len(seq)}

\* C21: in aStar, an expansion pushes a neighbour exactly when it is in
\* bounds, free, not closed and its tentative g is strictly lower than the
\* recorded one or none is recorded, and then records that g; the recorded g
\* of a position never increases, is the least g of the entries pushed for
\* it (those of an open position are all in the open set, a closed position
\* was closed at its recorded g and its stale entries are no better), and
\* every open entry is queued at priority g + h(position, goal).
C21_RelaxationExact ==
  /\ [](AStarLoop =>
         /\ \A i \in 1 .. Len(frontier) :
              /\ frontier[i].priority =
                   addG(frontier[i].item.g,
                        heuristic(heuristicName,
                                  <<frontier[i].item.row, frontier[i].item.col>>,
                                  goal))
              /\ KeyOf(frontier[i]) \in DOMAIN gScore
              /\ gScore[KeyOf(frontier[i])] <= frontier[i].item.g
         /\ \A key \in DOMAIN gScore \ visited : gScore[key] \in OpenG(key))
  /\ [][(AStarLoop /\ frontier # <<>>) =>
          /\ \A key \in DOMAIN gScore :
               key \in DOMAIN gScore' /\ gScore'[key] <= gScore[key]
          /\ nodesExpanded' # nodesExpanded =>
               gScore[KeyOf(Head(frontier))] = Head(frontier).item.g
          /\ (nodesExpanded' # nodesExpanded /\ pc' = "loop") =>
               /\ EntriesOf(frontier') \ EntriesOf(Tail(frontier)) =
                    {PushedEntry(i) : i \in {j \in 1 .. Len(directions) : ShouldPush(j)}}
               /\ Len(frontier') = Len(frontier) - 1 +
                    Cardinality({j \in 1 .. Len(directions) : ShouldPush(j)})
               /\ \A i \in 1 .. Len(directions) :
                    IF ShouldPush(i)
                      THEN gScore'[Neighbour(Head(frontier).item, i)] =
                             PushedEntry(i).item.g
                      ELSE Neighbour(Head(frontier).item, i) \in DOMAIN gScore =>
                             gScore'[Neighbour(Head(frontier).item, i)] =
                               gScore[Neighbour(Head(frontier).item, i)]]_vars

\* On a terrain, aStar has lowered the recorded g of an open position: the
\* open set holds the entry pushed first, at a higher g, and the one pushed
\* after it at the recorded g, while another neighbour was refused at an
\* equal g.
C21_Witness ==
  /\ AStarLoop /\ terrain # NoTerrain
  /\ \E key \in DOMAIN gScore \ visited :
       /\ Cardinality(OpenG(key)) >= 2
       /\ \A g \in OpenG(key) : gScore[key] <= g
  /\ \E key \in DOMAIN gScore \ visited :
       /\ Cardinality(OpenG(key)) = 1
       /\ Cardinality({i \in 1 .. Len(frontier) : KeyOf(frontier[i]) = key}) = 1
       /\ Cardinality({p \in visited : Adjacent(p, key)}) >= 2

\* The sum of the costs of entering the positions of a path after its
\* first one.
RECURSIVE CostAlong(_)
CostAlong(path) ==
  IF Len(path) <= 1 THEN 0
  ELSE CostAlong(SubSeq(path, 1, Len(path) - 1)) +
       EnterCost(terrain, path[Len(path)])

\* C22: the pathCost of every successful result of bfs, dfs and aStar is the
\* sum of the terrain costs of the positions of its path after the first
\* one, the cost of the start cell not being charged; without terrain it is
\* pathLength - 1.
C22_PathCostIsSumOfEntered ==
  \A a \in RunNames :
    Succeeded(a) =>
      /\ results[a].pathCost = CostAlong(results[a].path)
      /\ terrain = NoTerrain => results[a].pathCost = results[a].pathLength - 1

\* On a terrain whose start cell is not road, bfs, dfs and aStar have
\* returned paths, each across a costly cell that no path can avoid.
C22_Witness ==
  /\ terrain # NoTerrain /\ ~TerrainMismatched
  /\ terrain[start].cost > 1
  /\ \A a \in RunNames : Succeeded(a)
  /\ \A a \in RunNames : results[a].pathCost > results[a].pathLength - 1

\* The fixture: a grid without obstacles, start in the top-left corner and
\* the goal right below it, so that the first direction dfs follows (right)
\* leads away from the goal.
GoalBelowStart ==
  /\ grid = newGrid({})
  /\ start = <<0, 0>>
  /\ goal = <<1, 0>>
  /\ ~TerrainMismatched

\* C23: there is a grid with a reachable goal on which dfs expands strictly
\* more nodes than bfs: on the grid without obstacles with the goal right
\* below the start corner, bfs returns after 3 expansions and dfs only after
\* it has expanded every cell.
C23_DfsExpandsMoreThanBfs ==
  (GoalBelowStart /\ results["dfs"] # NoResult) =>
    /\ GoalReachable
    /\ Succeeded("bfs") /\ Succeeded("dfs")
    /\ results["bfs"].nodesExpanded = 3
    /\ results["dfs"].nodesExpanded = Rows * Cols
    /\ results["dfs"].nodesExpanded > results["bfs"].nodesExpanded

\* bfs and dfs have returned on the fixture, dfs with a path as short as
\* the one of bfs and more expansions.
C23_Witness ==
  /\ GoalBelowStart
  /\ Succeeded("bfs") /\ Succeeded("dfs")
  /\ results["dfs"].pathLength = results["bfs"].pathLength
  /\ results["dfs"].nodesExpanded > results["bfs"].nodesExpanded

\* The free cells that can be reached from start through 4-adjacent free
\* cells: the connected component of start.
ComponentOfStart ==
  {p \in Pos : DistOf(preset.costFromStart, p) < Infinity}

\* The positions of a sequence of positions, as a set.
PositionsOf(trace) == {trace[i] : i \in 1 .. Len(trace)}

\* C24: when bfs, dfs or aStar returns failure, the positions of
\* visitedNodes are exactly the free cells reachable from start through
\* 4-adjacent free cells, and nodesExpanded is the size of that connected
\* component, which totalFreeSpaces may exceed.
C24_FailureVisitsComponent ==
  \A a \in RunNames :
    (HasReturned(a) /\ ~results[a].success) =>
      /\ PositionsOf(results[a].visitedNodes) = ComponentOfStart
      /\ results[a].nodesExpanded = Cardinality(ComponentOfStart)
      /\ results[a].nodesExpanded <= results[a].totalFreeSpaces
      /\ goal \notin ComponentOfStart

\* All five searches have failed after visiting, bfs and dfs in different
\* orders, a component of several cells that leaves out a free cell.
C24_Witness ==
  /\ \A a \in RunNames :
       /\ HasReturned(a) /\ ~results[a].success
       /\ results[a].nodesExpanded < results[a].totalFreeSpaces
  /\ Cardinality(ComponentOfStart) >= 4
  /\ results["bfs"].visitedNodes # results["dfs"].visitedNodes

\* A search that knows nothing of terrain, as a function of grid, start and
\* goal alone: the frontier holds paths, a queue when fifo and else a stack
\* filled in reverse direction order; seen holds the positions pushed.
RECURSIVE PushPaths(_, _, _, _, _)
PushPaths(path, fifo, k, open, seen) ==
  IF k > Len(directions) THEN [open |-> open, seen |-> seen]
  ELSE LET i == IF fifo THEN k ELSE Len(directions) + 1 - k
           last == path[Len(path)]
           n == <<last[1] + directions[i][1], last[2] + directions[i][2]>>
       IN IF n \in Pos /\ Free(grid, n) /\ n \notin seen
            THEN PushPaths(path, fifo, k + 1, Append(open, Append(path, n)),
                           seen \cup {n})
            ELSE PushPaths(path, fifo, k + 1, open, seen)

RECURSIVE TerrainFreeSearch(_, _, _, _)
TerrainFreeSearch(fifo, open, seen, trace) ==
  IF open = <<>>
    THEN [success |-> FALSE, path |-> <<>>, visitedNodes |-> trace]
    ELSE LET path == IF fifo THEN Head(open) ELSE open[Len(open)]
             rest == IF fifo THEN Tail(open) ELSE SubSeq(open, 1, Len(open) - 1)
             last == path[Len(path)]
             pushed == PushPaths(path, fifo, 1, rest, seen)
         IN IF last = goal
              THEN [success |-> TRUE, path |-> path,
                    visitedNodes |-> Append(trace, last)]
              ELSE TerrainFreeSearch(fifo, pushed.open, pushed.seen,
                                     Append(trace, last))

\* C25: for bfs and for dfs, success, path, the order of visitedNodes and
\* nodesExpanded are those of a search over grid, start and goal that is
\* given no terrain, whatever terrain overlay of matching dimensions the
\* call receives, and also without terrain; isWeighted tells whether a
\* terrain was given.
C25_UninformedIgnoresTerrain ==
  \A a \in {"bfs", "dfs"} :
    (HasReturned(a) /\ ~TerrainMismatched) =>
      LET ref == TerrainFreeSearch(a = "bfs", << <<start>> >>, {start}, <<>>)
      IN /\ results[a].success = ref.success
         /\ results[a].path = ref.path
         /\ results[a].visitedNodes = ref.visitedNodes
         /\ results[a].nodesExpanded = Len(ref.visitedNodes)
         /\ results[a].pathLength = Len(ref.path)
         /\ results[a].isWeighted = (terrain # NoTerrain)

\* On a terrain, bfs and dfs have returned paths across costly cells while
\* aStar took another path than bfs, a cheaper one.
C25_Witness ==
  /\ terrain # NoTerrain /\ ~TerrainMismatched
  /\ Succeeded("bfs") /\ Succeeded("dfs") /\ Succeeded("manhattan")
  /\ results["bfs"].pathCost > results["bfs"].pathLength - 1
  /\ results["dfs"].pathCost > results["dfs"].pathLength - 1
  /\ results["manhattan"].path # results["bfs"].path
  /\ results["manhattan"].pathCost < results["bfs"].pathCost

\* The preset of the selected size.
SelectedPreset == gridPresets[gridSize]

\* The cells of the grid listed as obstacles.
ListedObstacles ==
  {SelectedPreset.obstacles[i] : i \in 1 .. Len(SelectedPreset.obstacles)} \cap Pos

\* The places in the terrain list of the definitions for cell p.
DefsAt(p) ==
  {i \in 1 .. Len(SelectedPreset.terrain) :
     <<SelectedPreset.terrain[i].row, SelectedPreset.terrain[i].col>> = p}

\* The type the last definition for cell p gives it.
LastDefType(p) ==
  SelectedPreset.terrain[CHOOSE i \in DefsAt(p) : \A j \in DefsAt(p) : j <= i].type

Animating == appPc \in {"visited", "pause", "path"}

IsPrefixOf(shown, whole) ==
  /\ Len(shown) <= Len(whole)
  /\ \A i \in 1..Len(shown) : shown[i] = whole[i]

AnimationShowsPrefixes ==
  Animating =>
    /\ algorithmResults \notin {NoResult, Threw}
    /\ shownResults = algorithmResults
    /\ IsPrefixOf(visitedCells, algorithmResults.visitedNodes)
    /\ IsPrefixOf(pathCells, algorithmResults.path)
    /\ (appPc = "visited" =>
          /\ visitedCells # <<>>
          /\ currentCell = visitedCells[Len(visitedCells)])
    /\ (pathCells # <<>> =>
          /\ visitedCells = algorithmResults.visitedNodes
          /\ currentCell = NoCell)
    /\ (appPc = "path" <=> pathCells # <<>>)

AnimationStep ==
  Animating' =>
    /\ Animating => algorithmResults' = algorithmResults
    /\ visitedCells' # visitedCells =>
         /\ Len(visitedCells') = (IF Animating THEN Len(visitedCells) ELSE 0) + 1
         /\ pathCells' = <<>>
    /\ pathCells' # pathCells =>
         /\ Len(pathCells') = Len(pathCells) + 1
         /\ visitedCells' = visitedCells
         /\ currentCell = NoCell

C27_AnimationReplaysPrefixes ==
  []AnimationShowsPrefixes /\ [][AnimationStep]_vars

C27_Witness ==
  /\ appPc = "path"
  /\ Len(pathCells) >= 2
  /\ Len(pathCells) < Len(algorithmResults.path)
  /\ Len(visitedCells) > Len(algorithmResults.path)
  /\ visitedCells = algorithmResults.visitedNodes
  /\ currentCell = NoCell

\* C28: while isRunning is true a call of handleStart changes nothing and
\* every control and both buttons are disabled, so that one run at most is
\* in progress (isRunning holds exactly while a search or its animation is
\* under way, and no search is started during it) and neither the grid nor
\* the selections nor what the animation has shown so far is reset before
\* the run is over.
RunInProgress == appPc \in {"searching", "visited", "pause", "path"}

OneRunAtATime == isRunning <=> RunInProgress

NothingInterferesWithARun ==
  isRunning =>
    /\ <<grid, terrain, start, goal, preset, optimalPathLength>>' =
         <<grid, terrain, start, goal, preset, optimalPathLength>>
    /\ controls' = controls
    /\ (appPc' = "searching" => appPc = "searching")
    /\ (Animating => IsPrefixOf(visitedCells, visitedCells'))
    /\ (Animating => IsPrefixOf(pathCells, pathCells'))
    /\ (Animating => shownResults' = shownResults)

C28_RunningExcludesControls ==
  []OneRunAtATime /\ [][NothingInterferesWithARun]_vars

C28_Witness ==
  /\ isRunning
  /\ disabled(isRunning)
  /\ appPc = "visited"
  /\ Len(visitedCells) >= 2
  /\ selectedAlgorithm = "astar"
  /\ gridSize # "small"
  /\ terrainMode = "weighted"

\* C29: every run handleStart starts sets isRunning back to false in the
\* end.  It does so only when visitedNodes and path have been replayed in
\* full, or when the algorithm has thrown: the error is then caught in the
\* same task, results stays null and the display stays as handleStart
\* cleared it, without a step of the animation.
AlgorithmThrew ==
  /\ appPc = "searching"
  /\ pc = "idle"
  /\ results[IF algorithm = "astar" THEN heuristicName ELSE algorithm] = Threw

ReplayComplete ==
  /\ shownResults \notin {NoResult, Threw}
  /\ visitedCells = shownResults.visitedNodes
  /\ pathCells = shownResults.path
  /\ currentCell = NoCell

RunEnds ==
  /\ AlgorithmThrew =>
       /\ ~isRunning'
       /\ appPc' = "idle"
       /\ shownResults = NoResult /\ shownResults' = NoResult
       /\ visitedCells' = <<>> /\ pathCells' = <<>> /\ currentCell' = NoCell
  /\ (isRunning /\ ~isRunning') =>
       /\ AlgorithmThrew \/ ReplayComplete
       /\ display' = display
  /\ (~isRunning /\ isRunning') => appPc' = "searching"

C29_EveryRunEnds ==
  /\ isRunning ~> ~isRunning
  /\ AlgorithmThrew ~> (~isRunning /\ shownResults = NoResult)
  /\ [][RunEnds]_vars

C29_Witness ==
  /\ ~isRunning
  /\ appPc = "idle"
  /\ ReplayComplete
  /\ shownResults.success
  /\ Len(pathCells) >= 3
  /\ Len(visitedCells) > Len(pathCells)

\* C30: in bfs and in dfs, before the first and after every loop iteration
\* and when a result is returned, totalSuccessors is the number of positions
\* marked visited minus 1 and nodesExpanded plus the number of frontier
\* entries is the number of positions marked visited; the returned result
\* carries these counts.  An iteration adds to totalSuccessors the number of
\* positions it marks, and never marks start.
UninformedNotThrown ==
  /\ algorithm \in {"bfs", "dfs"}
  /\ results[algorithm] # Threw

CountersAgree ==
  UninformedNotThrown =>
    /\ Key(start[1], start[2]) \in visited
    /\ totalSuccessors = Cardinality(visited) - 1
    /\ nodesExpanded + Len(frontier) = Cardinality(visited)
    /\ results[algorithm] # NoResult =>
         /\ results[algorithm].nodesExpanded = nodesExpanded
         /\ results[algorithm].branchingFactor = Ratio(totalSuccessors, nodesExpanded)
         /\ Len(results[algorithm].visitedNodes) + Len(frontier) =
              Cardinality(visited)

IterationCountsItsMarks ==
  (UninformedLoop /\ results'[algorithm] # Threw) =>
    /\ totalSuccessors' - totalSuccessors = Cardinality(visited' \ visited)
    /\ Key(start[1], start[2]) \notin visited' \ visited
    /\ nodesExpanded' - nodesExpanded + Len(frontier') - Len(frontier) =
         Cardinality(visited' \ visited)

C30_CountersAgree == []CountersAgree /\ [][IterationCountsItsMarks]_vars

C30_Witness ==
  /\ algorithm = "dfs" /\ pc = "idle"
  /\ results["dfs"] \notin {NoResult, Threw}
  /\ results["dfs"].success
  /\ Len(frontier) >= 2
  /\ nodesExpanded >= 4
  /\ totalSuccessors > nodesExpanded
  /\ results["bfs"] \notin {NoResult, Threw}
  /\ results["bfs"].nodesExpanded # nodesExpanded

====
